---- MODULE Spec2Model ----
(***************************************************************************)
(* A model of the http2 crate's wire codec: the HPACK primitives (integer, *)
(* string), the header table (static + dynamic), the header field          *)
(* representations, the header list codec and the frame dispatcher with    *)
(* its ten payload parsers.                                                *)
(*                                                                         *)
(* Octets are naturals in 0..255, byte vectors and strings are sequences   *)
(* of octets.  A call's outcome is a record whose status is "Ok", the name *)
(* of the Http2Error variant returned, or "Panic" when the Rust code       *)
(* aborts (index out of bounds, slice out of range, arithmetic overflow in *)
(* a build with overflow checks).                                          *)
(***************************************************************************)
EXTENDS Integers, Sequences, FiniteSets, TLC

VARIABLES
    header_table,   \* the HeaderTable handed to decode / deserialize (receiver side)
    sender_table,   \* the HeaderTable handed to HeaderList::encode (sender side)
    bytes,          \* the byte vector an HPACK decoder works on (&mut Vec<u8>)
    stream,         \* the byte vector handed to Frame::deserialize (&mut Vec<u8>)
    headers,        \* the Vec<HeaderField> HeaderList::decode is building
    last,           \* the last call made: its name, arguments and outcome
    inserted        \* the fields passed to add_entry since the table was created

vars == <<header_table, sender_table, bytes, stream, headers, last, inserted>>

(***************************************************************************)
(* Bounds of the model.                                                    *)
(***************************************************************************)
\* Largest value handed to HpackInteger::encode.
MaxInteger == 300
\* Width of the HpackInteger accumulator (u128 in the code), scaled down.
IntegerBits == 24
\* Longest string built from the alphabet (longer ones are runs of one octet).
MaxStringLen == 3

\* Width of usize, scaled with the accumulator (64 of 128 bits in the code).
UsizeBits == IntegerBits \div 2
U128Max == 2^IntegerBits - 1
UsizeMax == 2^UsizeBits - 1

(***************************************************************************)
(* Octet arithmetic.                                                       *)
(***************************************************************************)
RECURSIVE BitAnd(_, _)
BitAnd(a, b) ==
    IF a = 0 \/ b = 0 THEN 0
    ELSE (a % 2) * (b % 2) + 2 * BitAnd(a \div 2, b \div 2)

RECURSIVE BitOr(_, _)
BitOr(a, b) ==
    IF a = 0 THEN b
    ELSE IF b = 0 THEN a
    ELSE (IF a % 2 = 1 \/ b % 2 = 1 THEN 1 ELSE 0) + 2 * BitOr(a \div 2, b \div 2)

\* bytes[from..] of a Rust slice (from is 0-based).
SliceFrom(v, from) == SubSeq(v, from + 1, Len(v))

\* bytes[from..to] of a Rust slice (0-based, to exclusive).
Slice(v, from, to) == SubSeq(v, from + 1, to)

\* `x as u8`.
AsU8(x) == x % 256

\* `x as usize` of a u128.
AsUsize(x) == x % (UsizeMax + 1)

\* u32::from_be_bytes([a, b, c, d]).
U32FromBeBytes(a, b, c, d) == ((a * 256 + b) * 256 + c) * 256 + d

(***************************************************************************)
(* HpackInteger (src/header/primitive.rs).                                 *)
(***************************************************************************)
\* The continuation octets: while integer >= 128 { push(integer % 128 + 128) }.
RECURSIVE HpackIntegerEncodeTail(_)
HpackIntegerEncodeTail(integer) ==
    IF integer >= 128
    THEN <<AsU8((integer % 128) + 128)>> \o HpackIntegerEncodeTail(integer \div 128)
    ELSE <<AsU8(integer)>>

\* HpackInteger::encode(&self, n): the test is made on `integer as u8`.
HpackIntegerEncode(value, n) ==
    IF n > 8 \/ n = 0
    THEN [status |-> "HpackError", bytes |-> <<>>]
    ELSE LET max_prefix_value == AsU8(2^n - 1) IN
         IF AsU8(value) < max_prefix_value
         THEN [status |-> "Ok", bytes |-> <<AsU8(value)>>]
         ELSE [status |-> "Ok",
               bytes  |-> <<max_prefix_value>>
                          \o HpackIntegerEncodeTail(value - max_prefix_value)]

\* The loop of HpackInteger::decode.  overflow_checks is the build's setting:
\* with it an arithmetic overflow panics, without it the result wraps.
RECURSIVE HpackIntegerDecodeLoop(_, _, _, _)
HpackIntegerDecodeLoop(integer, multiplier, b, overflow_checks) ==
    IF b = <<>>
    THEN [status |-> "Panic", value |-> 0, bytes |-> b]
    ELSE
    LET pow_overflows == multiplier >= IntegerBits
        pow == IF pow_overflows THEN 0 ELSE 2^multiplier
        product == BitAnd(b[1], 127) * pow
        mul_overflows == product > U128Max
        term == product % (U128Max + 1)
        sum == integer + term
    IN
    IF overflow_checks /\ (pow_overflows \/ mul_overflows)
    THEN [status |-> "Panic", value |-> 0, bytes |-> b]
    ELSE IF sum > U128Max
    THEN [status |-> "HpackError", value |-> 0, bytes |-> b]
    ELSE IF BitAnd(b[1], 128) # 128
    THEN [status |-> "Ok", value |-> sum, bytes |-> SliceFrom(b, 1)]
    ELSE IF multiplier + 7 > 255 /\ overflow_checks
    THEN [status |-> "Panic", value |-> 0, bytes |-> SliceFrom(b, 1)]
    ELSE HpackIntegerDecodeLoop(sum, AsU8(multiplier + 7), SliceFrom(b, 1),
                                overflow_checks)

\* HpackInteger::decode(n, bytes).
HpackIntegerDecode(n, b, overflow_checks) ==
    IF n > 8 \/ n = 0
    THEN [status |-> "HpackError", value |-> 0, bytes |-> b]
    ELSE IF b = <<>>
    THEN [status |-> "Panic", value |-> 0, bytes |-> b]
    ELSE LET max_prefix_value == AsU8(2^n - 1)
             masked_prefix == BitAnd(b[1], max_prefix_value)
         IN
         IF masked_prefix < max_prefix_value
         THEN [status |-> "Ok", value |-> masked_prefix, bytes |-> SliceFrom(b, 1)]
         ELSE HpackIntegerDecodeLoop(max_prefix_value, 0, SliceFrom(b, 1),
                                     overflow_checks)

\* TryInto<usize> for HpackInteger.
TryIntoUsize(value) ==
    IF value > UsizeMax
    THEN [status |-> "HpackError", value |-> 0]
    ELSE [status |-> "Ok", value |-> value]

(***************************************************************************)
(* Huffman decoding.  Tree (crate::header::huffman) is used by             *)
(* HpackString::decode; it is modelled from the specification's section    *)
(* 4.2 for the symbols the model's inputs use.                             *)
(***************************************************************************)
\* The canonical code of the modelled symbols, most significant bit first.
HuffmanCodes ==
    { [sym |-> 48, code |-> <<0,0,0,0,0>>],      \* '0'
      [sym |-> 49, code |-> <<0,0,0,0,1>>],      \* '1'
      [sym |-> 97, code |-> <<0,0,0,1,1>>],      \* 'a'
      [sym |-> 98, code |-> <<1,0,0,0,1,1>>] }   \* 'b'

\* The eight bits of an octet, most significant first.
OctetBits(o) == [i \in 1..8 |-> (o \div 2^(8 - i)) % 2]

\* The bits of a sequence of octets, in the order they are read.
BitsOf(octets) ==
    [i \in 1..(8 * Len(octets)) |-> OctetBits(octets[((i - 1) \div 8) + 1])[((i - 1) % 8) + 1]]

IsPrefixOf(p, s) == Len(p) <= Len(s) /\ SubSeq(s, 1, Len(p)) = p

\* Walk the code tree over the bits left; what remains at the end must be a
\* proper prefix of EOS (fewer than eight ones).
RECURSIVE HuffmanWalk(_, _)
HuffmanWalk(bits, out) ==
    IF Len(bits) < 8 /\ \A i \in 1..Len(bits) : bits[i] = 1
    THEN [status |-> "Ok", s |-> out]
    ELSE LET hit == {c \in HuffmanCodes : IsPrefixOf(c.code, bits)} IN
         IF hit = {}
         THEN [status |-> "HuffmanDecodingError", s |-> <<>>]
         ELSE LET c == CHOOSE c \in hit : TRUE IN
              HuffmanWalk(SubSeq(bits, Len(c.code) + 1, Len(bits)),
                          Append(out, c.sym))

\* Tree::decode.
TreeDecode(octets) == HuffmanWalk(BitsOf(octets), <<>>)

(***************************************************************************)
(* HpackString (src/header/primitive.rs).                                  *)
(***************************************************************************)
\* String::from_utf8_lossy on the octets the model uses: an ASCII octet is
\* kept, an octet that is not valid UTF-8 becomes U+FFFD (EF BF BD).
RECURSIVE FromUtf8Lossy(_)
FromUtf8Lossy(octets) ==
    IF \A i \in 1..Len(octets) : octets[i] < 128 THEN octets
    ELSE (IF octets[1] < 128 THEN <<octets[1]>> ELSE <<239, 191, 189>>)
         \o FromUtf8Lossy(Tail(octets))

\* HpackString::encode(&self, huffman_encode).
HpackStringEncode(s, huffman_encode) ==
    LET length_encoded == HpackIntegerEncode(Len(s), 7).bytes
        result == length_encoded \o s
    IN IF huffman_encode
       THEN <<BitOr(result[1], 128)>> \o Tail(result)
       ELSE result

\* HpackString::decode(bytes).
HpackStringDecode(b, overflow_checks) ==
    LET Failed(status, rest) == [status |-> status, s |-> <<>>, bytes |-> rest]
        Huffman(t, left) == [status |-> t.status, s |-> t.s, bytes |-> left]
        Gathered(huffman_encode, string_octets, left) ==
            IF huffman_encode
            THEN Huffman(TreeDecode(string_octets), left)
            ELSE [status |-> "Ok", s |-> FromUtf8Lossy(string_octets),
                  bytes |-> left]
        Checked(huffman_encode, length, rest) ==
            IF length = 0 THEN Failed("HpackError", rest)
            ELSE IF Len(rest) < length THEN Failed("HpackError", rest)
            ELSE Gathered(huffman_encode, Slice(rest, 0, length),
                          SliceFrom(rest, length))
        Measured(huffman_encode, decoded) ==
            IF decoded.status # "Ok" THEN Failed(decoded.status, decoded.bytes)
            ELSE Checked(huffman_encode, AsUsize(decoded.value), decoded.bytes)
    IN IF Len(b) = 0
       THEN Failed("HpackError", b)
       ELSE Measured(BitAnd(b[1], 128) = 128,
                     HpackIntegerDecode(7, b, overflow_checks))
(***************************************************************************)
(* Header fields and the header table (src/header/field.rs, table.rs).     *)
(***************************************************************************)
\* HeaderField::new(name, value).
HeaderField(name, value) == [name |-> name, value |-> value]

\* HeaderField::size.
HeaderFieldSize(f) == Len(f.name) + Len(f.value) + 32

\* The 61 entries of the static table.
STATIC_HEADER_FIELDS_TABLE_CONSTANTS ==
  <<
    [name |-> <<58,97,117,116,104,111,114,105,116,121>>, value |-> <<>>],  \* 1 :authority: 
    [name |-> <<58,109,101,116,104,111,100>>, value |-> <<71,69,84>>],  \* 2 :method: GET
    [name |-> <<58,109,101,116,104,111,100>>, value |-> <<80,79,83,84>>],  \* 3 :method: POST
    [name |-> <<58,112,97,116,104>>, value |-> <<47>>],  \* 4 :path: /
    [name |-> <<58,112,97,116,104>>, value |-> <<47,105,110,100,101,120,46,104,116,109,108>>],  \* 5 :path: /index.html
    [name |-> <<58,115,99,104,101,109,101>>, value |-> <<104,116,116,112>>],  \* 6 :scheme: http
    [name |-> <<58,115,99,104,101,109,101>>, value |-> <<104,116,116,112,115>>],  \* 7 :scheme: https
    [name |-> <<58,115,116,97,116,117,115>>, value |-> <<50,48,48>>],  \* 8 :status: 200
    [name |-> <<58,115,116,97,116,117,115>>, value |-> <<50,48,52>>],  \* 9 :status: 204
    [name |-> <<58,115,116,97,116,117,115>>, value |-> <<50,48,54>>],  \* 10 :status: 206
    [name |-> <<58,115,116,97,116,117,115>>, value |-> <<51,48,52>>],  \* 11 :status: 304
    [name |-> <<58,115,116,97,116,117,115>>, value |-> <<52,48,48>>],  \* 12 :status: 400
    [name |-> <<58,115,116,97,116,117,115>>, value |-> <<52,48,52>>],  \* 13 :status: 404
    [name |-> <<58,115,116,97,116,117,115>>, value |-> <<53,48,48>>],  \* 14 :status: 500
    [name |-> <<97,99,99,101,112,116,45,99,104,97,114,115,101,116>>, value |-> <<>>],  \* 15 accept-charset: 
    [name |-> <<97,99,99,101,112,116,45,101,110,99,111,100,105,110,103>>, value |-> <<103,122,105,112,44,32,100,101,102,108,97,116,101>>],  \* 16 accept-encoding: gzip, deflate
    [name |-> <<97,99,99,101,112,116,45,108,97,110,103,117,97,103,101>>, value |-> <<>>],  \* 17 accept-language: 
    [name |-> <<97,99,99,101,112,116,45,114,97,110,103,101,115>>, value |-> <<>>],  \* 18 accept-ranges: 
    [name |-> <<97,99,99,101,112,116>>, value |-> <<>>],  \* 19 accept: 
    [name |-> <<97,99,99,101,115,115,45,99,111,110,116,114,111,108,45,97,108,108,111,119,45,111,114,105,103,105,110>>, value |-> <<>>],  \* 20 access-control-allow-origin: 
    [name |-> <<97,103,101>>, value |-> <<>>],  \* 21 age: 
    [name |-> <<97,108,108,111,119>>, value |-> <<>>],  \* 22 allow: 
    [name |-> <<97,117,116,104,111,114,105,122,97,116,105,111,110>>, value |-> <<>>],  \* 23 authorization: 
    [name |-> <<99,97,99,104,101,45,99,111,110,116,114,111,108>>, value |-> <<>>],  \* 24 cache-control: 
    [name |-> <<99,111,110,116,101,110,116,45,100,105,115,112,111,115,105,116,105,111,110>>, value |-> <<>>],  \* 25 content-disposition: 
    [name |-> <<99,111,110,116,101,110,116,45,101,110,99,111,100,105,110,103>>, value |-> <<>>],  \* 26 content-encoding: 
    [name |-> <<99,111,110,116,101,110,116,45,108,97,110,103,117,97,103,101>>, value |-> <<>>],  \* 27 content-language: 
    [name |-> <<99,111,110,116,101,110,116,45,108,101,110,103,116,104>>, value |-> <<>>],  \* 28 content-length: 
    [name |-> <<99,111,110,116,101,110,116,45,108,111,99,97,116,105,111,110>>, value |-> <<>>],  \* 29 content-location: 
    [name |-> <<99,111,110,116,101,110,116,45,114,97,110,103,101>>, value |-> <<>>],  \* 30 content-range: 
    [name |-> <<99,111,110,116,101,110,116,45,116,121,112,101>>, value |-> <<>>],  \* 31 content-type: 
    [name |-> <<99,111,111,107,105,101>>, value |-> <<>>],  \* 32 cookie: 
    [name |-> <<100,97,116,101>>, value |-> <<>>],  \* 33 date: 
    [name |-> <<101,116,97,103>>, value |-> <<>>],  \* 34 etag: 
    [name |-> <<101,120,112,101,99,116>>, value |-> <<>>],  \* 35 expect: 
    [name |-> <<101,120,112,105,114,101,115>>, value |-> <<>>],  \* 36 expires: 
    [name |-> <<102,114,111,109>>, value |-> <<>>],  \* 37 from: 
    [name |-> <<104,111,115,116>>, value |-> <<>>],  \* 38 host: 
    [name |-> <<105,102,45,109,97,116,99,104>>, value |-> <<>>],  \* 39 if-match: 
    [name |-> <<105,102,45,109,111,100,105,102,105,101,100,45,115,105,110,99,101>>, value |-> <<>>],  \* 40 if-modified-since: 
    [name |-> <<105,102,45,110,111,110,101,45,109,97,116,99,104>>, value |-> <<>>],  \* 41 if-none-match: 
    [name |-> <<105,102,45,114,97,110,103,101>>, value |-> <<>>],  \* 42 if-range: 
    [name |-> <<105,102,45,117,110,109,111,100,105,102,105,101,100,45,115,105,110,99,101>>, value |-> <<>>],  \* 43 if-unmodified-since: 
    [name |-> <<108,97,115,116,45,109,111,100,105,102,105,101,100>>, value |-> <<>>],  \* 44 last-modified: 
    [name |-> <<108,105,110,107>>, value |-> <<>>],  \* 45 link: 
    [name |-> <<108,111,99,97,116,105,111,110>>, value |-> <<>>],  \* 46 location: 
    [name |-> <<109,97,120,45,102,111,114,119,97,114,100,115>>, value |-> <<>>],  \* 47 max-forwards: 
    [name |-> <<112,114,111,120,121,45,97,117,116,104,101,110,116,105,99,97,116,101>>, value |-> <<>>],  \* 48 proxy-authenticate: 
    [name |-> <<112,114,111,120,121,45,97,117,116,104,111,114,105,122,97,116,105,111,110>>, value |-> <<>>],  \* 49 proxy-authorization: 
    [name |-> <<114,97,110,103,101>>, value |-> <<>>],  \* 50 range: 
    [name |-> <<114,101,102,101,114,101,114>>, value |-> <<>>],  \* 51 referer: 
    [name |-> <<114,101,102,114,101,115,104>>, value |-> <<>>],  \* 52 refresh: 
    [name |-> <<114,101,116,114,121,45,97,102,116,101,114>>, value |-> <<>>],  \* 53 retry-after: 
    [name |-> <<115,101,114,118,101,114>>, value |-> <<>>],  \* 54 server: 
    [name |-> <<115,101,116,45,99,111,111,107,105,101>>, value |-> <<>>],  \* 55 set-cookie: 
    [name |-> <<115,116,114,105,99,116,45,116,114,97,110,115,112,111,114,116,45,115,101,99,117,114,105,116,121>>, value |-> <<>>],  \* 56 strict-transport-security: 
    [name |-> <<116,114,97,110,115,102,101,114,45,101,110,99,111,100,105,110,103>>, value |-> <<>>],  \* 57 transfer-encoding: 
    [name |-> <<117,115,101,114,45,97,103,101,110,116>>, value |-> <<>>],  \* 58 user-agent: 
    [name |-> <<118,97,114,121>>, value |-> <<>>],  \* 59 vary: 
    [name |-> <<118,105,97>>, value |-> <<>>],  \* 60 via: 
    [name |-> <<119,119,119,45,97,117,116,104,101,110,116,105,99,97,116,101>>, value |-> <<>>]   \* 61 www-authenticate: 
  >>

\* StaticTable::len.
StaticTableLen == Len(STATIC_HEADER_FIELDS_TABLE_CONSTANTS)

\* usize subtraction: a panic with overflow checks, a wrap without.
UsizeSub(a, b, overflow_checks) ==
    IF a >= b THEN [status |-> "Ok", value |-> a - b]
    ELSE IF overflow_checks THEN [status |-> "Panic", value |-> 0]
    ELSE [status |-> "Ok", value |-> a - b + UsizeMax + 1]

\* Vec::get(index) on the table's entries, as StaticTable::get and
\* DynamicTable::get use it.
EntriesGet(entries, index) ==
    IF index < Len(entries)
    THEN [status |-> "Ok", field |-> entries[index + 1]]
    ELSE [status |-> "IndexationError", field |-> HeaderField(<<>>, <<>>)]

\* StaticTable::get(index).
StaticTableGet(index) == EntriesGet(STATIC_HEADER_FIELDS_TABLE_CONSTANTS, index)

\* DynamicTable::new(max_size).
DynamicTableNew(max_size) == [entries |-> <<>>, size |-> 0, max_size |-> max_size]

\* HeaderTable::new(dynamic_table_max_size).
HeaderTableNew(max_size) == [dynamic_table |-> DynamicTableNew(max_size)]

\* DynamicTable::get(index).
DynamicTableGet(dt, index) == EntriesGet(dt.entries, index)

\* The sum update_size accumulates.
RECURSIVE SumOfSizes(_)
SumOfSizes(entries) ==
    IF entries = <<>> THEN 0
    ELSE HeaderFieldSize(entries[1]) + SumOfSizes(Tail(entries))

\* DynamicTable::update_size.
DynamicTableUpdateSize(dt) == [dt EXCEPT !.size = SumOfSizes(dt.entries)]

\* Vec::pop taking the entry at the front.
VecPopFront(entries) ==
    IF entries = <<>> THEN entries ELSE Tail(entries)

\* Vec::pop: drops the last entry, does nothing on an empty vector.
VecPop(entries) ==
    IF entries = <<>> THEN entries ELSE SubSeq(entries, 1, Len(entries) - 1)

\* while self.size > self.max_size { self.entries.pop(); self.update_size(); }
RECURSIVE DynamicTableEvict(_)
DynamicTableEvict(dt) ==
    IF dt.size > dt.max_size
    THEN DynamicTableEvict(
             DynamicTableUpdateSize([dt EXCEPT !.entries = VecPop(dt.entries)]))
    ELSE dt

\* DynamicTable::add_entry without the eviction loop.
AddEntryWithoutEviction(dt, entry) ==
    DynamicTableUpdateSize([dt EXCEPT !.entries = <<entry>> \o dt.entries])

\* DynamicTable::add_entry putting the new entry after the older ones.
AddEntryAtTheEnd(dt, entry) ==
    DynamicTableEvict(
        DynamicTableUpdateSize([dt EXCEPT !.entries = dt.entries \o <<entry>>]))

\* DynamicTable::add_entry that drops the entry: the table is left as it is.
AddEntryDiscarding(dt, entry) == dt

\* DynamicTable::add_entry with `if` in place of `while`: one entry at most is
\* popped.
AddEntryEvictingOnce(dt, entry) ==
    LET added == DynamicTableUpdateSize([dt EXCEPT !.entries = <<entry>> \o dt.entries])
    IN IF added.size > added.max_size
       THEN DynamicTableUpdateSize([added EXCEPT !.entries = VecPop(added.entries)])
       ELSE added

\* DynamicTable::add_entry(entry).
DynamicTableAddEntry(dt, entry) ==
    DynamicTableEvict(
        DynamicTableUpdateSize([dt EXCEPT !.entries = <<entry>> \o dt.entries]))

\* DynamicTable::set_max_size without the eviction loop.
SetMaxSizeWithoutEviction(dt, max_size) == [dt EXCEPT !.max_size = max_size]

\* DynamicTable::set_max_size that empties the table as soon as it is over
\* the new maximum.
SetMaxSizeEvictingAll(dt, max_size) ==
    IF dt.size > max_size
    THEN [entries |-> <<>>, size |-> 0, max_size |-> max_size]
    ELSE [dt EXCEPT !.max_size = max_size]

\* DynamicTable::set_max_size(max_size).
DynamicTableSetMaxSize(dt, max_size) ==
    DynamicTableEvict([dt EXCEPT !.max_size = max_size])

\* for (index, entry) in entries.iter().enumerate() { if entry == header_field
\* { return Some(index) } } None, from position index on.
RECURSIVE EntriesContainsFrom(_, _, _)
EntriesContainsFrom(entries, header_field, index) ==
    IF index >= Len(entries) THEN [some |-> FALSE, index |-> 0]
    ELSE IF entries[index + 1] = header_field THEN [some |-> TRUE, index |-> index]
    ELSE EntriesContainsFrom(entries, header_field, index + 1)

\* StaticTable::contains / DynamicTable::contains on a vector of entries.
EntriesContains(entries, header_field) ==
    EntriesContainsFrom(entries, header_field, 0)

\* The same loop comparing entry.name() with header_field.name().
RECURSIVE EntriesContainsNameFrom(_, _, _)
EntriesContainsNameFrom(entries, header_field, index) ==
    IF index >= Len(entries) THEN [some |-> FALSE, index |-> 0]
    ELSE IF entries[index + 1].name = header_field.name
    THEN [some |-> TRUE, index |-> index]
    ELSE EntriesContainsNameFrom(entries, header_field, index + 1)

\* StaticTable::contains_name / DynamicTable::contains_name.
EntriesContainsName(entries, header_field) ==
    EntriesContainsNameFrom(entries, header_field, 0)

\* HeaderTable::get(index).
HeaderTableGet(ht, index, overflow_checks) ==
    IF index <= StaticTableLen
    THEN LET i == UsizeSub(index, 1, overflow_checks) IN
         IF i.status = "Panic"
         THEN [status |-> "Panic", field |-> HeaderField(<<>>, <<>>)]
         ELSE StaticTableGet(i.value)
    ELSE DynamicTableGet(ht.dynamic_table, index - StaticTableLen - 1)

\* HeaderTable::add_entry(header_field).
HeaderTableAddEntry(ht, header_field) ==
    [ht EXCEPT !.dynamic_table = DynamicTableAddEntry(ht.dynamic_table, header_field)]

\* HeaderTable::set_max_size(max_size).
HeaderTableSetMaxSize(ht, max_size) ==
    [ht EXCEPT !.dynamic_table = DynamicTableSetMaxSize(ht.dynamic_table, max_size)]

\* HeaderTable::contains(header_field).
HeaderTableContains(ht, header_field) ==
    LET s == EntriesContains(STATIC_HEADER_FIELDS_TABLE_CONSTANTS, header_field)
        d == EntriesContains(ht.dynamic_table.entries, header_field)
    IN IF s.some THEN [some |-> TRUE, index |-> s.index + 1]
       ELSE IF d.some THEN [some |-> TRUE, index |-> d.index + StaticTableLen + 1]
       ELSE [some |-> FALSE, index |-> 0]

\* HeaderTable::contains_name searching the dynamic table before the static.
ContainsNameDynamicFirst(ht, header_field) ==
    LET s == EntriesContainsName(STATIC_HEADER_FIELDS_TABLE_CONSTANTS, header_field)
        d == EntriesContainsName(ht.dynamic_table.entries, header_field)
    IN IF d.some THEN [some |-> TRUE, index |-> d.index + StaticTableLen + 1]
       ELSE IF s.some THEN [some |-> TRUE, index |-> s.index + 1]
       ELSE [some |-> FALSE, index |-> 0]

\* HeaderTable::contains_name(header_field).
HeaderTableContainsName(ht, header_field) ==
    LET s == EntriesContainsName(STATIC_HEADER_FIELDS_TABLE_CONSTANTS, header_field)
        d == EntriesContainsName(ht.dynamic_table.entries, header_field)
    IN IF s.some THEN [some |-> TRUE, index |-> s.index + 1]
       ELSE IF d.some THEN [some |-> TRUE, index |-> d.index + StaticTableLen + 1]
       ELSE [some |-> FALSE, index |-> 0]

(***************************************************************************)
(* Header field representations (src/header/representation.rs).           *)
(***************************************************************************)
\* The variants of enum HeaderRepresentation; a field a variant does not
\* carry is left at 0 or the empty string.
Representation(kind, index, name, value, max_size) ==
    [kind |-> kind, index |-> index, name |-> name, value |-> value,
     max_size |-> max_size]

Indexed(index) == Representation("Indexed", index, <<>>, <<>>, 0)

IncrementalIndexingIndexedName(index, value) ==
    Representation("IncrementalIndexingIndexedName", index, <<>>, value, 0)

IncrementalIndexingNewName(name, value) ==
    Representation("IncrementalIndexingNewName", 0, name, value, 0)

WithoutIndexingIndexedName(index, value) ==
    Representation("WithoutIndexingIndexedName", index, <<>>, value, 0)

WithoutIndexingNewName(name, value) ==
    Representation("WithoutIndexingNewName", 0, name, value, 0)

NeverIndexedIndexedName(index, value) ==
    Representation("NeverIndexedIndexedName", index, <<>>, value, 0)

NeverIndexedNewName(name, value) ==
    Representation("NeverIndexedNewName", 0, name, value, 0)

SizeUpdate(max_size) == Representation("SizeUpdate", 0, <<>>, <<>>, max_size)

\* What a failed decode carries in place of a representation.
NoRepresentation == Representation("None", 0, <<>>, <<>>, 0)

\* What a decode that failed with `status` hands back.
NotDecoded(status, rest) ==
    [status |-> status, rep |-> NoRepresentation, bytes |-> rest]

\* let value = HpackString::decode(bytes)?; Ok(<kind> { index, name, value })
DecodeValue(kind, index, name, b, overflow_checks) ==
    LET Valued(value) ==
            IF value.status # "Ok" THEN NotDecoded(value.status, value.bytes)
            ELSE [status |-> "Ok",
                  rep |-> Representation(kind, index, name, value.s, 0),
                  bytes |-> value.bytes]
    IN Valued(HpackStringDecode(b, overflow_checks))

\* let index = HpackInteger::decode(n, bytes)?;
\* let value = HpackString::decode(bytes)?;
DecodeIndexedName(kind, n, b, overflow_checks) ==
    LET WithIndex(index) ==
            IF index.status # "Ok" THEN NotDecoded(index.status, index.bytes)
            ELSE DecodeValue(kind, index.value, <<>>, index.bytes, overflow_checks)
    IN WithIndex(HpackIntegerDecode(n, b, overflow_checks))

\* *bytes = bytes[1..].to_vec();
\* let name = HpackString::decode(bytes)?;
\* let value = HpackString::decode(bytes)?;
DecodeNewName(kind, b, overflow_checks) ==
    LET Named(name) ==
            IF name.status # "Ok" THEN NotDecoded(name.status, name.bytes)
            ELSE DecodeValue(kind, 0, name.s, name.bytes, overflow_checks)
    IN Named(HpackStringDecode(SliceFrom(b, 1), overflow_checks))

\* let x = HpackInteger::decode(n, bytes)?; Ok(HeaderRepresentation::<kind>)
DecodeInteger(kind, n, b, overflow_checks) ==
    LET Decoded(x) ==
            IF x.status # "Ok" THEN NotDecoded(x.status, x.bytes)
            ELSE [status |-> "Ok",
                  rep |-> IF kind = "Indexed" THEN Indexed(x.value)
                          ELSE SizeUpdate(x.value),
                  bytes |-> x.bytes]
    IN Decoded(HpackIntegerDecode(n, b, overflow_checks))

\* HeaderRepresentation::decode(bytes).
HeaderRepresentationDecode(b, overflow_checks) ==
    IF b = <<>>
    THEN NotDecoded("Panic", b)
    ELSE IF BitAnd(b[1], 128) = 128
    THEN DecodeInteger("Indexed", 7, b, overflow_checks)
    ELSE IF BitAnd(b[1], 192) = 64
    THEN IF BitAnd(b[1], 63) # 0
         THEN DecodeIndexedName("IncrementalIndexingIndexedName", 6, b, overflow_checks)
         ELSE DecodeNewName("IncrementalIndexingNewName", b, overflow_checks)
    ELSE IF BitAnd(b[1], 240) = 0
    THEN IF BitAnd(b[1], 15) # 0
         THEN DecodeIndexedName("WithoutIndexingIndexedName", 4, b, overflow_checks)
         ELSE DecodeNewName("WithoutIndexingNewName", b, overflow_checks)
    ELSE IF BitAnd(b[1], 240) = 16
    THEN IF BitAnd(b[1], 15) # 0
         THEN DecodeIndexedName("NeverIndexedIndexedName", 4, b, overflow_checks)
         ELSE DecodeNewName("NeverIndexedNewName", b, overflow_checks)
    ELSE IF BitAnd(b[1], 224) = 32
    THEN DecodeInteger("SizeUpdate", 5, b, overflow_checks)
    ELSE NotDecoded("HpackError", b)

\* let mut bytes = index.encode(n).unwrap(); bytes[0] |= pattern;
EncodePrefixed(value, n, pattern) ==
    LET Patterned(encoded) == <<BitOr(encoded[1], pattern)>> \o Tail(encoded)
    IN Patterned(HpackIntegerEncode(value, n).bytes)

\* HeaderRepresentation::encode(&self, huffman_encode_name, huffman_encode_value).
HeaderRepresentationEncode(rep, huffman_encode_name, huffman_encode_value) ==
    CASE rep.kind = "Indexed" -> EncodePrefixed(rep.index, 7, 128)
      [] rep.kind = "IncrementalIndexingIndexedName" ->
            EncodePrefixed(rep.index, 6, 64)
            \o HpackStringEncode(rep.value, huffman_encode_value)
      [] rep.kind = "IncrementalIndexingNewName" ->
            <<64>> \o HpackStringEncode(rep.name, huffman_encode_name)
                   \o HpackStringEncode(rep.value, huffman_encode_value)
      [] rep.kind = "WithoutIndexingIndexedName" ->
            EncodePrefixed(rep.index, 4, 0)
            \o HpackStringEncode(rep.value, huffman_encode_value)
      [] rep.kind = "WithoutIndexingNewName" ->
            <<0>> \o HpackStringEncode(rep.name, huffman_encode_name)
                  \o HpackStringEncode(rep.value, huffman_encode_value)
      [] rep.kind = "NeverIndexedIndexedName" ->
            EncodePrefixed(rep.index, 4, 16)
            \o HpackStringEncode(rep.value, huffman_encode_value)
      [] rep.kind = "NeverIndexedNewName" ->
            <<16>> \o HpackStringEncode(rep.name, huffman_encode_name)
                   \o HpackStringEncode(rep.value, huffman_encode_value)
      [] rep.kind = "SizeUpdate" -> EncodePrefixed(rep.max_size, 5, 32)

(***************************************************************************)
(* HeaderField::from_representation and the into_representation family     *)
(* (src/header/field.rs).                                                   *)
(***************************************************************************)
NoField == HeaderField(<<>>, <<>>)

\* The outcome of a from_representation that empties the dynamic table when
\* it fails.
FromOutcomeClearing(status, some, field, table) ==
    [status |-> status, some |-> some, field |-> field,
     table |-> IF status = "Ok" THEN table
               ELSE HeaderTableNew(table.dynamic_table.max_size)]

\* The outcome of from_representation: Ok(Some(field)), Ok(None) or an error,
\* with the header table as the call leaves it.
FromOutcome(status, some, field, table) ==
    [status |-> status, some |-> some, field |-> field, table |-> table]

\* let index: usize = index.try_into()?; header_table.get(index)?
LookUp(ht, index, overflow_checks) ==
    LET Converted(i) ==
            IF i.status # "Ok" THEN [status |-> i.status, field |-> NoField]
            ELSE HeaderTableGet(ht, i.value, overflow_checks)
    IN Converted(TryIntoUsize(index))

\* HeaderField::from_representation(header_representation, header_table).
HeaderFieldFromRepresentation(rep, ht, overflow_checks) ==
    LET Failed(status) == FromOutcome(status, FALSE, NoField, ht)
        Added(header_field) ==
            FromOutcome("Ok", TRUE, header_field,
                        HeaderTableAddEntry(ht, header_field))
        Plain(header_field) == FromOutcome("Ok", TRUE, header_field, ht)
        Found(got) ==
            IF got.status # "Ok" THEN Failed(got.status)
            ELSE IF rep.kind = "Indexed" THEN Plain(got.field)
            ELSE IF rep.kind = "IncrementalIndexingIndexedName"
            THEN Added(HeaderField(got.field.name, rep.value))
            ELSE Plain(HeaderField(got.field.name, rep.value))
        Resized(max_size) ==
            IF max_size.status # "Ok" THEN Failed(max_size.status)
            ELSE FromOutcome("Ok", FALSE, NoField,
                             HeaderTableSetMaxSize(ht, max_size.value))
    IN CASE rep.kind \in {"Indexed", "IncrementalIndexingIndexedName",
                          "WithoutIndexingIndexedName", "NeverIndexedIndexedName"} ->
              Found(LookUp(ht, rep.index, overflow_checks))
         [] rep.kind = "IncrementalIndexingNewName" ->
              Added(HeaderField(rep.name, rep.value))
         [] rep.kind \in {"WithoutIndexingNewName", "NeverIndexedNewName"} ->
              Plain(HeaderField(rep.name, rep.value))
         [] rep.kind = "SizeUpdate" -> Resized(TryIntoUsize(rep.max_size))

\* HeaderField::into_representation(&self, header_table).
HeaderFieldIntoRepresentation(header_field, ht) ==
    LET Inserted(rep) ==
            [rep |-> rep, table |-> HeaderTableAddEntry(ht, header_field)]
        ByName(named) ==
            IF named.some
            THEN Inserted(IncrementalIndexingIndexedName(named.index,
                                                         header_field.value))
            ELSE Inserted(IncrementalIndexingNewName(header_field.name,
                                                     header_field.value))
        ByField(exact) ==
            IF exact.some
            THEN [rep |-> Indexed(exact.index), table |-> ht]
            ELSE ByName(HeaderTableContainsName(ht, header_field))
    IN ByField(HeaderTableContains(ht, header_field))

\* HeaderField::into_representation_without_indexing(&self, header_table).
HeaderFieldIntoRepresentationWithoutIndexing(header_field, ht) ==
    LET ByName(named) ==
            IF named.some
            THEN [rep |-> WithoutIndexingIndexedName(named.index, header_field.value),
                  table |-> ht]
            ELSE [rep |-> WithoutIndexingNewName(header_field.name,
                                                 header_field.value),
                  table |-> ht]
    IN ByName(HeaderTableContainsName(ht, header_field))

\* HeaderField::into_representation_never_index(&self, header_table).
HeaderFieldIntoRepresentationNeverIndex(header_field, ht) ==
    LET ByName(named) ==
            IF named.some
            THEN [rep |-> NeverIndexedIndexedName(named.index, header_field.value),
                  table |-> ht]
            ELSE [rep |-> NeverIndexedNewName(header_field.name, header_field.value),
                  table |-> ht]
    IN ByName(HeaderTableContainsName(ht, header_field))

(***************************************************************************)
(* The header list codec (src/header/list.rs).                             *)
(***************************************************************************)
\* One turn of the loop that leaves the octets of a dynamic table size update
\* in the byte vector.
HeaderListDecodeStepKeeping(b, ht, overflow_checks) ==
    LET Built(decoded, built) ==
            [status |-> built.status, some |-> built.some, field |-> built.field,
             table |-> built.table,
             bytes |-> IF decoded.rep.kind = "SizeUpdate" THEN b ELSE decoded.bytes,
             rep |-> decoded.rep]
        Decoded(decoded) ==
            IF decoded.status # "Ok"
            THEN [status |-> decoded.status, some |-> FALSE, field |-> NoField,
                  table |-> ht, bytes |-> decoded.bytes, rep |-> decoded.rep]
            ELSE Built(decoded,
                       HeaderFieldFromRepresentation(decoded.rep, ht,
                                                     overflow_checks))
    IN Decoded(HeaderRepresentationDecode(b, overflow_checks))

\* One turn of the loop of HeaderList::decode: decode a representation, then
\* build a header field from it.  rep is the representation decoded, if any.
HeaderListDecodeStep(b, ht, overflow_checks) ==
    LET Built(decoded, built) ==
            [status |-> built.status, some |-> built.some, field |-> built.field,
             table |-> built.table, bytes |-> decoded.bytes, rep |-> decoded.rep]
        Decoded(decoded) ==
            IF decoded.status # "Ok"
            THEN [status |-> decoded.status, some |-> FALSE, field |-> NoField,
                  table |-> ht, bytes |-> decoded.bytes, rep |-> decoded.rep]
            ELSE Built(decoded,
                       HeaderFieldFromRepresentation(decoded.rep, ht,
                                                     overflow_checks))
    IN Decoded(HeaderRepresentationDecode(b, overflow_checks))

\* HeaderList::decode(bytes, header_table), from the state the loop is in.
RECURSIVE HeaderListDecodeLoop(_, _, _, _)
HeaderListDecodeLoop(b, ht, so_far, overflow_checks) ==
    LET Turned(step) ==
            IF step.status # "Ok"
            THEN [status |-> step.status, headers |-> <<>>, table |-> step.table,
                  bytes |-> step.bytes]
            ELSE HeaderListDecodeLoop(
                     step.bytes, step.table,
                     IF step.some THEN Append(so_far, step.field) ELSE so_far,
                     overflow_checks)
    IN IF b = <<>>
       THEN [status |-> "Ok", headers |-> so_far, table |-> ht, bytes |-> b]
       ELSE Turned(HeaderListDecodeStep(b, ht, overflow_checks))

\* HeaderList::decode(bytes, header_table).
HeaderListDecode(b, ht, overflow_checks) ==
    HeaderListDecodeLoop(b, ht, <<>>, overflow_checks)

\* HeaderList::encode(&self, header_table), from the field the loop is at.
RECURSIVE HeaderListEncodeLoop(_, _, _)
HeaderListEncodeLoop(header_fields, ht, out) ==
    LET Represented(r) ==
            HeaderListEncodeLoop(
                Tail(header_fields), r.table,
                out \o HeaderRepresentationEncode(r.rep, FALSE, FALSE))
    IN IF header_fields = <<>>
       THEN [bytes |-> out, table |-> ht]
       ELSE Represented(HeaderFieldIntoRepresentation(header_fields[1], ht))

\* HeaderList::encode(&self, header_table).
HeaderListEncode(header_fields, ht) == HeaderListEncodeLoop(header_fields, ht, <<>>)

(***************************************************************************)
(* Inputs of the model.                                                    *)
(***************************************************************************)
\* The octets strings are built from: 'a' and 'b'.
Alphabet == {97, 98}

\* All strings over the alphabet of at most n octets.
StringsUpTo(n) == UNION {[1..k -> Alphabet] : k \in 0..n}

\* A run of n copies of one octet.
Run(octet, n) == [i \in 1..n |-> octet]

\* String lengths around the one-octet limit of the 7-bit length prefix (127)
\* and around the limit of an octet (256).
LongLengths == {126, 127, 128, 256}

\* The strings handed to HpackString::encode.
Strings == StringsUpTo(MaxStringLen) \cup {Run(97, n) : n \in LongLengths}

\* The octets that follow an encoding in the buffer.
Trailers == {<<>>, <<0>>, <<255, 127>>}

\* The tables and buffers a specification does not use stay as they start.
IdleTable == HeaderTableNew(0)

NoCall == [op |-> "none"]

NoHistory == [fields |-> <<>>, evicted |-> FALSE]

(***************************************************************************)
(* Specification SpecInt: HpackInteger::encode followed by                 *)
(* HpackInteger::decode on the encoding, with the caller's prefix bits set *)
(* in the first octet and trailing octets after it.                        *)
(***************************************************************************)
\* The state every specification shares but for its own inputs.
Idle ==
    /\ header_table = IdleTable
    /\ sender_table = IdleTable
    /\ bytes = <<>>
    /\ stream = <<>>
    /\ headers = <<>>
    /\ inserted = NoHistory

\* The call's inputs: the value, the prefix size, the caller's bits for the
\* high 8-n bits of the first octet and the octets after the encoding.
InitInt ==
    /\ Idle
    /\ \E value \in 0..MaxInteger, n \in 1..8, rest \in Trailers :
         \E high \in {0, 2^(8 - n) - 1} :
           last = [op |-> "input", value |-> value, n |-> n, high |-> high,
                   rest |-> rest]

IntegerEncode ==
    /\ last.op = "input"
    /\ LET encoded == HpackIntegerEncode(last.value, last.n)
           first == BitOr(encoded.bytes[1], last.high * 2^last.n)
       IN /\ encoded.status = "Ok"
          /\ bytes' = (IF encoded.bytes = <<>> THEN <<>>
                       ELSE <<first>> \o Tail(encoded.bytes)) \o last.rest
          /\ last' = [op |-> "HpackInteger::encode", value |-> last.value,
                      n |-> last.n, rest |-> last.rest,
                      encoded |-> encoded.bytes]
    /\ UNCHANGED <<header_table, sender_table, stream, headers, inserted>>

IntegerDecode ==
    /\ last.op = "HpackInteger::encode"
    /\ \E overflow_checks \in BOOLEAN :
         LET decoded == HpackIntegerDecode(last.n, bytes, overflow_checks) IN
         /\ bytes' = decoded.bytes
         /\ last' = [op |-> "HpackInteger::decode", value |-> last.value,
                     n |-> last.n, rest |-> last.rest, encoded |-> last.encoded,
                     status |-> decoded.status, decoded |-> decoded.value]
    /\ UNCHANGED <<header_table, sender_table, stream, headers, inserted>>

NextInt == IntegerEncode \/ IntegerDecode

SpecInt == InitInt /\ [][NextInt]_vars

\* C3: for every value, every prefix size N in 1..8, every setting of the
\* high 8-N bits of the first octet and every trailing octets R,
\* decode(N, encode(v, N) followed by R) returns v and leaves exactly R in the
\* buffer, and the encoding is never empty.
C3_IntegerRoundTrip ==
    /\ last.op = "HpackInteger::encode" => Len(last.encoded) >= 1
    /\ last.op = "HpackInteger::decode" =>
         /\ last.status = "Ok"
         /\ last.decoded = last.value
         /\ bytes = last.rest

(***************************************************************************)
(* Specification SpecStr: HpackString::encode followed by                  *)
(* HpackString::decode on the encoding and trailing octets.                *)
(***************************************************************************)
InitStr ==
    /\ Idle
    /\ \E s \in Strings, rest \in Trailers :
         last = [op |-> "input", s |-> s, huffman_encode |-> FALSE, rest |-> rest]

StringEncode ==
    /\ last.op = "input"
    /\ bytes' = HpackStringEncode(last.s, last.huffman_encode) \o last.rest
    /\ last' = [op |-> "HpackString::encode", s |-> last.s,
                huffman_encode |-> last.huffman_encode, rest |-> last.rest]
    /\ UNCHANGED <<header_table, sender_table, stream, headers, inserted>>

StringDecode ==
    /\ last.op = "HpackString::encode"
    /\ \E overflow_checks \in BOOLEAN :
         LET decoded == HpackStringDecode(bytes, overflow_checks) IN
         /\ bytes' = decoded.bytes
         /\ last' = [op |-> "HpackString::decode", s |-> last.s,
                     huffman_encode |-> last.huffman_encode, rest |-> last.rest,
                     status |-> decoded.status, decoded |-> decoded.s]
    /\ UNCHANGED <<header_table, sender_table, stream, headers, inserted>>

NextStr == StringEncode \/ StringDecode

SpecStr == InitStr /\ [][NextStr]_vars

\* C4: for every string s, the empty string and strings of 127 octets or
\* more included, HpackString::decode applied to encode(s, huffman = false)
\* followed by trailing octets R returns s and leaves exactly R in the buffer.
C4_RawStringRoundTrip ==
    (last.op = "HpackString::decode" /\ ~last.huffman_encode) =>
         /\ last.status = "Ok"
         /\ last.decoded = last.s
         /\ bytes = last.rest

(***************************************************************************)
(* Specification SpecTable: a header table created by HeaderTable::new and *)
(* then used through add_entry, set_max_size, get, from_representation and *)
(* the into_representation family, in any order.                           *)
(***************************************************************************)
\* Number of table capacities tried, in steps of SizeStep octets.
MaxSizeSteps == 2

\* The capacities handed to HeaderTable::new and set_max_size: 0 holds
\* nothing, SizeStep holds one of the model's fields, 2 * SizeStep two, and
\* SmallStep holds the smallest field but not the largest.
SizeStep == HeaderFieldSize(STATIC_HEADER_FIELDS_TABLE_CONSTANTS[2])
SmallStep == HeaderFieldSize([name |-> <<97>>, value |-> <<98>>])

MaxSizes == {k * SizeStep : k \in 0..MaxSizeSteps} \cup {SmallStep}

\* Header names: ":method" (in the static table) and "a" (not in it).
Names == {STATIC_HEADER_FIELDS_TABLE_CONSTANTS[2].name, <<97>>}

\* Header values: "GET" (with ":method", static entry 2) and "b".
Values == {STATIC_HEADER_FIELDS_TABLE_CONSTANTS[2].value, <<98>>}

Fields == {HeaderField(n, v) : n \in Names, v \in Values}

\* Indices around the ends of the static and of the dynamic table.
Indices == {0, 1, 2, StaticTableLen}
           \cup {StaticTableLen + k : k \in 1..(MaxSizeSteps + 2)}

\* The representations handed to from_representation.
Representations ==
    {Indexed(i) : i \in Indices}
    \cup {IncrementalIndexingIndexedName(i, v) : i \in Indices, v \in Values}
    \cup {WithoutIndexingIndexedName(i, v) : i \in Indices, v \in Values}
    \cup {NeverIndexedIndexedName(i, v) : i \in Indices, v \in Values}
    \cup {IncrementalIndexingNewName(f.name, f.value) : f \in Fields}
    \cup {WithoutIndexingNewName(f.name, f.value) : f \in Fields}
    \cup {NeverIndexedNewName(f.name, f.value) : f \in Fields}
    \cup {SizeUpdate(m) : m \in MaxSizes}

\* The history of add_entry calls after a call that passed `added` to
\* add_entry (at most one field) and took the table from pre to post: the
\* fields are kept, oldest first, until an entry is evicted.
Recorded(history, added, pre, post) ==
    IF history.evicted
       \/ Len(post.dynamic_table.entries)
            < Len(pre.dynamic_table.entries) + Len(added)
    THEN [fields |-> <<>>, evicted |-> TRUE]
    ELSE [fields |-> history.fields \o added, evicted |-> FALSE]

\* The record of a call on the header table.
TableCall(op, arg, pre, res) == [op |-> op, arg |-> arg, pre |-> pre, res |-> res]

InitTable ==
    /\ \E max_size \in MaxSizes : header_table = HeaderTableNew(max_size)
    /\ sender_table = IdleTable
    /\ bytes = <<>>
    /\ stream = <<>>
    /\ headers = <<>>
    /\ last = NoCall
    /\ inserted = NoHistory

New ==
    /\ last = NoCall
    /\ \E max_size \in MaxSizes :
      /\ header_table' = HeaderTableNew(max_size)
      /\ last' = TableCall("HeaderTable::new", [max_size |-> max_size],
                           header_table, [status |-> "Ok"])
      /\ inserted' = NoHistory
      /\ UNCHANGED <<sender_table, bytes, stream, headers>>

AddEntry ==
    /\ last = NoCall
    /\ \E header_field \in Fields :
      LET post == HeaderTableAddEntry(header_table, header_field) IN
      /\ header_table' = post
      /\ last' = TableCall("HeaderTable::add_entry", [field |-> header_field],
                           header_table, [status |-> "Ok"])
      /\ inserted' = Recorded(inserted, <<header_field>>, header_table, post)
      /\ UNCHANGED <<sender_table, bytes, stream, headers>>

SetMaxSize ==
    /\ last = NoCall
    /\ \E max_size \in MaxSizes :
      LET post == HeaderTableSetMaxSize(header_table, max_size) IN
      /\ header_table' = post
      /\ last' = TableCall("HeaderTable::set_max_size", [max_size |-> max_size],
                           header_table, [status |-> "Ok"])
      /\ inserted' = Recorded(inserted, <<>>, header_table, post)
      /\ UNCHANGED <<sender_table, bytes, stream, headers>>

Get ==
    /\ last = NoCall
    /\ \E index \in Indices, overflow_checks \in BOOLEAN :
      /\ last' = TableCall("HeaderTable::get", [index |-> index], header_table,
                           HeaderTableGet(header_table, index, overflow_checks))
      /\ UNCHANGED <<header_table, sender_table, bytes, stream, headers, inserted>>

FromRepresentation ==
    /\ last = NoCall
    /\ \E rep \in Representations, overflow_checks \in BOOLEAN :
      LET out == HeaderFieldFromRepresentation(rep, header_table, overflow_checks)
          added == IF out.status = "Ok" /\ rep.kind \in
                        {"IncrementalIndexingIndexedName",
                         "IncrementalIndexingNewName"}
                   THEN <<out.field>> ELSE <<>>
      IN
      /\ header_table' = out.table
      /\ last' = TableCall("HeaderField::from_representation", [rep |-> rep],
                           header_table,
                           [status |-> out.status, some |-> out.some,
                            field |-> out.field])
      /\ inserted' = Recorded(inserted, added, header_table, out.table)
      /\ UNCHANGED <<sender_table, bytes, stream, headers>>

IntoRepresentation ==
    /\ last = NoCall
    /\ \E header_field \in Fields :
      LET out == HeaderFieldIntoRepresentation(header_field, header_table)
          added == IF out.rep.kind = "Indexed" THEN <<>> ELSE <<header_field>>
      IN
      /\ header_table' = out.table
      /\ last' = TableCall("HeaderField::into_representation",
                           [field |-> header_field], header_table,
                           [status |-> "Ok", rep |-> out.rep])
      /\ inserted' = Recorded(inserted, added, header_table, out.table)
      /\ UNCHANGED <<sender_table, bytes, stream, headers>>

IntoRepresentationWithoutIndexing ==
    /\ last = NoCall
    /\ \E header_field \in Fields :
      LET out == HeaderFieldIntoRepresentationWithoutIndexing(header_field,
                                                              header_table)
      IN
      /\ header_table' = out.table
      /\ last' = TableCall("HeaderField::into_representation_without_indexing",
                           [field |-> header_field], header_table,
                           [status |-> "Ok", rep |-> out.rep])
      /\ inserted' = Recorded(inserted, <<>>, header_table, out.table)
      /\ UNCHANGED <<sender_table, bytes, stream, headers>>

IntoRepresentationNeverIndex ==
    /\ last = NoCall
    /\ \E header_field \in Fields :
      LET out == HeaderFieldIntoRepresentationNeverIndex(header_field,
                                                         header_table)
      IN
      /\ header_table' = out.table
      /\ last' = TableCall("HeaderField::into_representation_never_index",
                           [field |-> header_field], header_table,
                           [status |-> "Ok", rep |-> out.rep])
      /\ inserted' = Recorded(inserted, <<>>, header_table, out.table)
      /\ UNCHANGED <<sender_table, bytes, stream, headers>>

\* The caller is done with the outcome of the last call and drops it.
Forget ==
    /\ last # NoCall
    /\ last' = NoCall
    /\ UNCHANGED <<header_table, sender_table, bytes, stream, headers, inserted>>

NextTable ==
    \/ Forget
    \/ New
    \/ AddEntry
    \/ SetMaxSize
    \/ Get
    \/ FromRepresentation
    \/ IntoRepresentation
    \/ IntoRepresentationWithoutIndexing
    \/ IntoRepresentationNeverIndex

SpecTable == InitTable /\ [][NextTable]_vars

(***************************************************************************)
(* Properties of the header table, checked under SpecTable.                *)
(***************************************************************************)
\* The octets a sequence of entries accounts for: 32 per entry plus the
\* lengths of its name and of its value.
RECURSIVE Octets(_)
Octets(entries) ==
    IF entries = <<>> THEN 0
    ELSE Len(Head(entries).name) + Len(Head(entries).value) + 32
         + Octets(Tail(entries))

\* The longest prefix of the entries (newest first) that max_size can hold.
FittingPrefix(entries, max_size) ==
    LET fits == {n \in 0..Len(entries) : Octets(SubSeq(entries, 1, n)) <= max_size}
        most == CHOOSE n \in fits : \A m \in fits : m <= n
    IN SubSeq(entries, 1, most)

\* The dynamic table an insertion of field f must leave behind.
AfterInsertion(dt, f) ==
    LET kept == FittingPrefix(<<f>> \o dt.entries, dt.max_size) IN
    [entries |-> kept, size |-> Octets(kept), max_size |-> dt.max_size]

\* The dynamic table a size update to max_size must leave behind.
AfterSizeUpdate(dt, max_size) ==
    LET kept == FittingPrefix(dt.entries, max_size) IN
    [entries |-> kept, size |-> Octets(kept), max_size |-> max_size]

\* The unified index space: index i of a table is element i of this sequence.
Unified(ht) == STATIC_HEADER_FIELDS_TABLE_CONSTANTS \o ht.dynamic_table.entries

SetMin(S) == CHOOSE x \in S : \A y \in S : x <= y

\* C2: after HeaderTable::new and any sequence of add_entry, set_max_size,
\* into_representation and from_representation calls, the stored size of the
\* dynamic table is the sum of len(name) + len(value) + 32 over its entries
\* and is at most max_size.
C2_DynamicTableSize ==
    LET dt == header_table.dynamic_table IN
    /\ dt.size = Octets(dt.entries)
    /\ dt.size <= dt.max_size

\* A table that holds two entries after an eviction has taken place.
C2_Witness ==
    /\ inserted.evicted
    /\ Len(header_table.dynamic_table.entries) >= 2
    /\ last.op \in {"HeaderTable::add_entry", "HeaderField::into_representation",
                    "HeaderField::from_representation"}
    /\ header_table # last.pre

\* C6: get(i) is static entry i for 1 <= i <= 61 and the dynamic entry at
\* position i - 62 for 61 < i <= 61 + K; after inserting e1..en with no
\* eviction, get(61 + k) is e(n-k+1), so get(62) is the last inserted entry.
C6_UnifiedIndexSpace ==
    LET entries == header_table.dynamic_table.entries
        n == Len(inserted.fields)
    IN
    /\ \A i \in 1..StaticTableLen, overflow_checks \in BOOLEAN :
         HeaderTableGet(header_table, i, overflow_checks)
           = [status |-> "Ok", field |-> STATIC_HEADER_FIELDS_TABLE_CONSTANTS[i]]
    /\ \A i \in (StaticTableLen + 1)..(StaticTableLen + Len(entries)),
          overflow_checks \in BOOLEAN :
         HeaderTableGet(header_table, i, overflow_checks)
           = [status |-> "Ok", field |-> entries[i - StaticTableLen]]
    /\ ~inserted.evicted =>
         /\ Len(entries) = n
         /\ \A k \in 1..n, overflow_checks \in BOOLEAN :
              HeaderTableGet(header_table, StaticTableLen + k, overflow_checks)
                = [status |-> "Ok", field |-> inserted.fields[n - k + 1]]
    /\ last.op = "HeaderTable::get"
       /\ last.arg.index \in 1..(StaticTableLen + Len(entries)) =>
         last.res = [status |-> "Ok", field |-> Unified(header_table)[last.arg.index]]

\* get(62) answered with the last of two different fields inserted without
\* an eviction.
C6_Witness ==
    /\ last.op = "HeaderTable::get"
    /\ last.arg.index = StaticTableLen + 1
    /\ ~inserted.evicted
    /\ Len(inserted.fields) = 2
    /\ inserted.fields[1] # inserted.fields[2]
    /\ last.res.status = "Ok"
    /\ last.res.field = inserted.fields[2]

\* C7: for every index outside 1..61+K, HeaderTable::get and
\* from_representation of an Indexed or indexed-name representation that
\* carries it return IndexationError, without a panic, and leave the table
\* unchanged.
C7_OutOfRangeIndex ==
    LET OutOfRange(i) ==
            i \notin 1..(StaticTableLen + Len(last.pre.dynamic_table.entries))
    IN
    /\ last.op = "HeaderTable::get" /\ OutOfRange(last.arg.index) =>
         /\ last.res.status = "IndexationError"
         /\ header_table = last.pre
    /\ last.op = "HeaderField::from_representation"
       /\ last.arg.rep.kind \in {"Indexed", "IncrementalIndexingIndexedName",
                                 "WithoutIndexingIndexedName",
                                 "NeverIndexedIndexedName"}
       /\ OutOfRange(last.arg.rep.index) =>
         /\ last.res.status = "IndexationError"
         /\ header_table = last.pre

\* The header field a representation stands for, given the table it is
\* decoded against.
FieldOf(rep, ht) ==
    CASE rep.kind = "Indexed" -> Unified(ht)[rep.index]
      [] rep.kind \in {"IncrementalIndexingIndexedName",
                       "WithoutIndexingIndexedName", "NeverIndexedIndexedName"} ->
            [name |-> Unified(ht)[rep.index].name, value |-> rep.value]
      [] OTHER -> [name |-> rep.name, value |-> rep.value]

\* C8: from_representation changes the dynamic table only for the two
\* literal-with-incremental-indexing forms (the field is output and inserted
\* at position 0, then eviction applies) and for a size update; the Indexed
\* form and the four without-indexing / never-indexed forms output the field
\* and leave entries, size and max_size as they were.
C8_TableEffect ==
    last.op = "HeaderField::from_representation" =>
      LET rep == last.arg.rep
          pre == last.pre
          res == last.res
      IN
      IF res.status # "Ok" THEN header_table = pre
      ELSE CASE rep.kind \in {"IncrementalIndexingIndexedName",
                              "IncrementalIndexingNewName"} ->
                  /\ res.some
                  /\ res.field = FieldOf(rep, pre)
                  /\ header_table.dynamic_table
                       = AfterInsertion(pre.dynamic_table, res.field)
             [] rep.kind = "SizeUpdate" ->
                  /\ ~res.some
                  /\ header_table.dynamic_table
                       = AfterSizeUpdate(pre.dynamic_table, rep.max_size)
             [] OTHER ->
                  /\ res.some
                  /\ res.field = FieldOf(rep, pre)
                  /\ header_table = pre

\* An incremental-indexing representation with an indexed name decoded
\* against a full table: the field goes in at position 0 and the oldest
\* entry is evicted.
C8_Witness ==
    /\ last.op = "HeaderField::from_representation"
    /\ last.arg.rep.kind = "IncrementalIndexingIndexedName"
    /\ last.res.status = "Ok"
    /\ Len(last.pre.dynamic_table.entries) = 2
    /\ Len(header_table.dynamic_table.entries) = 2
    /\ header_table.dynamic_table.entries[1] = last.res.field
    /\ header_table.dynamic_table.entries[2] = last.pre.dynamic_table.entries[1]
    /\ last.pre.dynamic_table.entries[1] # last.pre.dynamic_table.entries[2]

\* C10: into_representation returns Indexed and leaves the table unchanged
\* when the exact field is in the static or dynamic table; otherwise, when the
\* name is present, incremental indexing with indexed name, and otherwise
\* incremental indexing with new name, inserting the field in both cases.  The
\* index is the lowest matching unified index before the insertion.  The
\* without-indexing and never-index variants never modify the table.
C10_EncoderPolicy ==
    LET f == last.arg.field
        pre == last.pre
        rep == last.res.rep
        exact == {i \in 1..Len(Unified(pre)) : Unified(pre)[i] = f}
        named == {i \in 1..Len(Unified(pre)) : Unified(pre)[i].name = f.name}
    IN
    /\ last.op = "HeaderField::into_representation" =>
         IF exact # {}
         THEN rep = Indexed(SetMin(exact)) /\ header_table = pre
         ELSE /\ header_table.dynamic_table = AfterInsertion(pre.dynamic_table, f)
              /\ rep = IF named # {}
                       THEN IncrementalIndexingIndexedName(SetMin(named), f.value)
                       ELSE IncrementalIndexingNewName(f.name, f.value)
    /\ last.op \in {"HeaderField::into_representation_without_indexing",
                    "HeaderField::into_representation_never_index"} =>
         header_table = pre

\* A field whose name is in the static and in the dynamic table but whose
\* value is in neither: the static index is emitted and the field inserted.
C10_Witness ==
    /\ last.op = "HeaderField::into_representation"
    /\ last.res.rep.kind = "IncrementalIndexingIndexedName"
    /\ last.res.rep.index <= StaticTableLen
    /\ \E i \in 1..Len(last.pre.dynamic_table.entries) :
         last.pre.dynamic_table.entries[i].name = last.arg.field.name
    /\ header_table.dynamic_table.entries[1] = last.arg.field

(***************************************************************************)
(* Specification SpecBlock: HeaderList::decode called on header blocks,    *)
(* one after the other on the same header table, each turn of its loop a   *)
(* step.                                                                   *)
(***************************************************************************)
\* Number of representations in a header block.
MaxBlockReps == 3

\* The capacities the table starts with and the size updates carry.
BlockMaxSizes == {0, SizeStep, SizeStep + SizeStep}

\* The representations a block is made of: two insertions (a new name, a
\* name of the static table), references to the two newest dynamic entries
\* and the size updates.
BlockRepresentations ==
    {IncrementalIndexingNewName(<<97>>, <<98>>),
     IncrementalIndexingIndexedName(2, <<98>>),
     Indexed(StaticTableLen + 1),
     Indexed(StaticTableLen + 2)}
    \cup {SizeUpdate(m) : m \in BlockMaxSizes}

Blocks == UNION {[1..k -> BlockRepresentations] : k \in 1..MaxBlockReps}

\* The octets of a block: its representations encoded one after the other.
RECURSIVE BlockOctets(_)
BlockOctets(reps) ==
    IF reps = <<>> THEN <<>>
    ELSE HeaderRepresentationEncode(Head(reps), FALSE, FALSE)
         \o BlockOctets(Tail(reps))

InitBlock ==
    /\ \E max_size \in BlockMaxSizes : header_table = HeaderTableNew(max_size)
    /\ sender_table = IdleTable
    /\ bytes = <<>>
    /\ stream = <<>>
    /\ headers = <<>>
    /\ last = NoCall
    /\ inserted = NoHistory

\* HeaderList::decode(bytes, header_table) is entered: headers is empty.
\* last keeps the representations met so far and the table before each.
DecodeCall ==
    /\ last = NoCall
    /\ \E block \in Blocks :
         /\ bytes' = BlockOctets(block)
         /\ headers' = <<>>
         /\ last' = [op |-> "HeaderList::decode", status |-> "Loop",
                     reps |-> <<>>, tables |-> <<header_table>>,
                     outputs |-> <<>>]
    /\ UNCHANGED <<header_table, sender_table, stream, inserted>>

\* One turn of the while loop: a representation is decoded and a field built
\* from it; an error of either returns from the call.
DecodeTurn ==
    /\ last.op = "HeaderList::decode"
    /\ last.status = "Loop"
    /\ bytes # <<>>
    /\ \E overflow_checks \in BOOLEAN :
         \E step \in {HeaderListDecodeStep(bytes, header_table, overflow_checks)} :
           /\ bytes' = step.bytes
           /\ header_table' = step.table
           /\ headers' = IF step.status # "Ok" THEN <<>>
                         ELSE IF step.some THEN Append(headers, step.field)
                         ELSE headers
           /\ last' = [op |-> "HeaderList::decode",
                       status |-> IF step.status = "Ok" THEN "Loop"
                                  ELSE step.status,
                       reps |-> Append(last.reps, step.rep),
                       tables |-> Append(last.tables, step.table),
                       outputs |-> Append(last.outputs, headers')]
    /\ UNCHANGED <<sender_table, stream, inserted>>

\* The loop ends on an empty byte vector: Ok(Self { header_fields: headers }).
DecodeReturn ==
    /\ last.op = "HeaderList::decode"
    /\ last.status = "Loop"
    /\ bytes = <<>>
    /\ last' = [last EXCEPT !.status = "Ok"]
    /\ UNCHANGED <<header_table, sender_table, bytes, stream, headers, inserted>>

\* The caller is done with the outcome of the call and with its byte vector.
DecodeDrop ==
    /\ last.op = "HeaderList::decode"
    /\ last.status # "Loop"
    /\ last' = NoCall
    /\ bytes' = <<>>
    /\ headers' = <<>>
    /\ UNCHANGED <<header_table, sender_table, stream, inserted>>

NextBlock == DecodeCall \/ DecodeTurn \/ DecodeReturn \/ DecodeDrop

SpecBlock == InitBlock /\ [][NextBlock]_vars

\* The turns 1..Len(last.reps) of the call in progress; turn j meets
\* last.reps[j] with the table last.tables[j] and leaves last.tables[j + 1]
\* and the output last.outputs[j].
Turns == 1..Len(last.reps)

OutputBefore(j) == IF j = 1 THEN <<>> ELSE last.outputs[j - 1]

\* C9: a size update met at any position of a block does not fail and adds
\* nothing to the output; max_size is set and the oldest entries are evicted
\* until size <= max_size before the next representation is processed, so a
\* later Indexed reference to an entry the update evicted returns
\* IndexationError and a later insertion is bounded by the new max_size.
C9_SizeUpdateInBlock ==
    last.op = "HeaderList::decode" =>
      \A j \in Turns :
        last.reps[j].kind = "SizeUpdate" =>
          LET before == last.tables[j].dynamic_table
              after == last.tables[j + 1].dynamic_table
              kept == Len(after.entries)
          IN
          /\ j = Len(last.reps) => last.status \in {"Loop", "Ok"}
          /\ last.outputs[j] = OutputBefore(j)
          /\ after = AfterSizeUpdate(before, last.reps[j].max_size)
          /\ after.size <= after.max_size
          /\ j < Len(last.reps) =>
               LET next == last.reps[j + 1] IN
               /\ next.kind = "Indexed"
                  /\ next.index > StaticTableLen + kept
                  /\ next.index <= StaticTableLen + Len(before.entries) =>
                    /\ j + 1 = Len(last.reps)
                    /\ last.status = "IndexationError"
                    /\ last.tables[j + 2] = last.tables[j + 1]
               /\ next.kind \in {"IncrementalIndexingNewName",
                                 "IncrementalIndexingIndexedName"} =>
                    /\ last.tables[j + 2].dynamic_table
                         = AfterInsertion(after, FieldOf(next, last.tables[j + 1]))
                    /\ last.tables[j + 2].dynamic_table.size
                         <= last.reps[j].max_size

\* A block whose second representation is a size update that evicts an entry
\* and whose third is an Indexed reference to the evicted entry.
C9_Witness ==
    /\ last.op = "HeaderList::decode"
    /\ Len(last.reps) = 3
    /\ last.reps[1].kind = "IncrementalIndexingNewName"
    /\ last.reps[2].kind = "SizeUpdate"
    /\ last.reps[3].kind = "Indexed"
    /\ Len(last.tables[2].dynamic_table.entries) = 2
    /\ Len(last.tables[3].dynamic_table.entries) = 1
    /\ last.reps[3].index = StaticTableLen + 2
    /\ last.status = "IndexationError"

(***************************************************************************)
(* The frame codec (src/frame/mod.rs and the ten payload modules).  A      *)
(* parser hands back its status, the frame it built and, for the frames    *)
(* that carry a header block, the header table as the call leaves it.  An  *)
(* Option is a sequence of at most one element.                            *)
(***************************************************************************)
NoFrame == [type |-> "None"]

NoFrameHeader ==
    [payload_length |-> 0, frame_type |-> 0, frame_flags |-> 0,
     reserved |-> FALSE, stream_identifier |-> 0]

\* A parser's outcome.
Parsed(status, frame, table) == [status |-> status, frame |-> frame, table |-> table]

\* A flag pushed onto the Vec of flags when its bit is set in the byte.
Flag(byte, bit, name) == IF BitAnd(byte, bit) # 0 THEN <<name>> ELSE <<>>

\* v.contains(&flag).
Contains(v, flag) == \E i \in 1..Len(v) : v[i] = flag

\* FrameHeader::deserialize without the check of the length: bytes[0..8] are
\* indexed whatever the buffer holds.
FrameHeaderDeserializeUnchecked(b) ==
    IF Len(b) < 9
    THEN [status |-> "Panic", header |-> NoFrameHeader, bytes |-> b]
    ELSE [status |-> "Ok",
          header |-> [payload_length |-> U32FromBeBytes(0, b[1], b[2], b[3]),
                      frame_type |-> b[4],
                      frame_flags |-> b[5],
                      reserved |-> (b[6] \div 128) # 0,
                      stream_identifier |->
                          U32FromBeBytes(BitAnd(b[6], 127), b[7], b[8], b[9])],
          bytes |-> SliceFrom(b, 9)]

\* FrameHeader::deserialize(bytes).
FrameHeaderDeserialize(b) ==
    IF Len(b) < 9
    THEN [status |-> "NotEnoughBytes", header |-> NoFrameHeader, bytes |-> b]
    ELSE [status |-> "Ok",
          header |-> [payload_length |-> U32FromBeBytes(0, b[1], b[2], b[3]),
                      frame_type |-> b[4],
                      frame_flags |-> b[5],
                      reserved |-> (b[6] \div 128) # 0,
                      stream_identifier |->
                          U32FromBeBytes(BitAnd(b[6], 127), b[7], b[8], b[9])],
          bytes |-> SliceFrom(b, 9)]

\* FramePriority::deserialize(bytes).
FramePriorityDeserialize(b) ==
    IF Len(b) < 5
    THEN [status |-> "NotEnoughBytes", priority |-> <<>>, bytes |-> b]
    ELSE [status |-> "Ok",
          priority |-> [exclusive |-> (b[1] \div 128) # 0,
                        stream_dependency |->
                            U32FromBeBytes(BitAnd(b[1], 127), b[2], b[3], b[4]),
                        weight |-> b[5]],
          bytes |-> SliceFrom(b, 5)]

\* The removal of the padding with the end of the slice one octet too early:
\* bytes[1..length - pad_length - 1].
StripPaddingShort(b, length) ==
    IF b = <<>> THEN [status |-> "Panic", bytes |-> b]
    ELSE IF b[1] = 0 THEN [status |-> "FrameError", bytes |-> b]
    ELSE IF length < b[1] + 1 \/ length - b[1] - 1 < 1 \/ length - b[1] > Len(b)
    THEN [status |-> "Panic", bytes |-> b]
    ELSE [status |-> "Ok", bytes |-> Slice(b, 1, length - b[1] - 1)]

\* let pad_length = bytes[0] as usize;
\* if pad_length == 0 { return Err(FrameError) }
\* *bytes = bytes[1..length - pad_length].to_vec();
\* The index, the subtraction and the slice panic when they are out of range.
StripPadding(b, length) ==
    IF b = <<>> THEN [status |-> "Panic", bytes |-> b]
    ELSE IF b[1] = 0 THEN [status |-> "FrameError", bytes |-> b]
    ELSE IF length < b[1] \/ length - b[1] < 1 \/ length - b[1] > Len(b)
    THEN [status |-> "Panic", bytes |-> b]
    ELSE [status |-> "Ok", bytes |-> Slice(b, 1, length - b[1])]

\* DataFrame::deserialize_flags(byte).
DataFrameDeserializeFlags(byte) ==
    Flag(byte, 1, "EndStream") \o Flag(byte, 8, "Padded")

\* DataFrame::deserialize(frame_header, bytes).
DataFrameDeserialize(frame_header, b, ht) ==
    LET Built(frame_flags, data) ==
            Parsed("Ok",
                   [type |-> "Data",
                    stream_id |-> frame_header.stream_identifier,
                    end_stream |-> Contains(frame_flags, "EndStream"),
                    data |-> data],
                   ht)
        Stripped(frame_flags, stripped) ==
            IF stripped.status # "Ok" THEN Parsed(stripped.status, NoFrame, ht)
            ELSE Built(frame_flags, stripped.bytes)
        Flagged(frame_flags) ==
            IF Contains(frame_flags, "Padded")
            THEN Stripped(frame_flags, StripPadding(b, frame_header.payload_length))
            ELSE Built(frame_flags, b)
    IN IF Len(b) # frame_header.payload_length
       THEN Parsed("FrameError", NoFrame, ht)
       ELSE Flagged(DataFrameDeserializeFlags(frame_header.frame_flags))

\* HeadersFlag::parse_flags(byte).
HeadersFlagParseFlags(byte) ==
    Flag(byte, 1, "EndStream") \o Flag(byte, 4, "EndHeaders")
    \o Flag(byte, 8, "Padded") \o Flag(byte, 32, "Priority")

\* Headers::deserialize(header, payload, header_table): the padding is
\* stripped first, then the priority fields are read, then the header list.
HeadersDeserialize(header, payload, ht, overflow_checks) ==
    LET Listed(parsed_flags, priority, list) ==
            IF list.status # "Ok" THEN Parsed(list.status, NoFrame, list.table)
            ELSE Parsed("Ok",
                        [type |-> "Headers",
                         header |-> header,
                         header_list |-> list.headers,
                         parsed_flags |-> parsed_flags,
                         exclusivity |-> priority.exclusivity,
                         stream_dependency |-> priority.stream_dependency,
                         weight |-> priority.weight],
                        list.table)
        Fragment(parsed_flags, priority, fragment) ==
            Listed(parsed_flags, priority,
                   HeaderListDecode(fragment, ht, overflow_checks))
        Unpadded(parsed_flags, p) ==
            IF Contains(parsed_flags, "Priority")
            THEN IF Len(p) < 5 THEN Parsed("FrameError", NoFrame, ht)
                 ELSE Fragment(parsed_flags,
                               [exclusivity |-> <<BitAnd(p[1], 128) # 0>>,
                                stream_dependency |->
                                    <<U32FromBeBytes(BitAnd(p[1], 127), p[2],
                                                     p[3], p[4])>>,
                                weight |-> <<p[5]>>],
                               SliceFrom(p, 5))
            ELSE Fragment(parsed_flags,
                          [exclusivity |-> <<>>, stream_dependency |-> <<>>,
                           weight |-> <<>>],
                          p)
        Stripped(parsed_flags, stripped) ==
            IF stripped.status # "Ok" THEN Parsed(stripped.status, NoFrame, ht)
            ELSE Unpadded(parsed_flags, stripped.bytes)
        Flagged(parsed_flags) ==
            IF Contains(parsed_flags, "Padded")
            THEN Stripped(parsed_flags, StripPadding(payload, Len(payload)))
            ELSE Unpadded(parsed_flags, payload)
    IN Flagged(HeadersFlagParseFlags(header.frame_flags))

\* PriorityFrame::deserialize(frame_header, bytes).
PriorityFrameDeserialize(frame_header, b, ht) ==
    LET Read(p) ==
            IF p.status # "Ok" THEN Parsed(p.status, NoFrame, ht)
            ELSE Parsed("Ok",
                        [type |-> "Priority",
                         stream_id |-> frame_header.stream_identifier,
                         frame_priority |-> p.priority],
                        ht)
    IN IF Len(b) # frame_header.payload_length
       THEN Parsed("FrameError", NoFrame, ht)
       ELSE Read(FramePriorityDeserialize(b))

\* RstStreamFrame::deserialize(frame_header, bytes): bytes[0..3] are indexed
\* without a check of the length.
RstStreamFrameDeserialize(frame_header, b, ht) ==
    IF Len(b) # frame_header.payload_length
    THEN Parsed("FrameError", NoFrame, ht)
    ELSE IF Len(b) < 4 THEN Parsed("Panic", NoFrame, ht)
    ELSE Parsed("Ok",
                [type |-> "RstStream",
                 stream_id |-> frame_header.stream_identifier,
                 error_code |-> U32FromBeBytes(b[1], b[2], b[3], b[4])],
                ht)

\* SettingsFlag::parse_flags(byte).
SettingsFlagParseFlags(byte) == Flag(byte, 1, "Ack")

\* The name of a SETTINGS parameter, "" for an identifier that has none.
SettingsParameterName(identifier) ==
    CASE identifier = 1 -> "HeaderTableSize"
      [] identifier = 2 -> "EnablePush"
      [] identifier = 3 -> "MaxConcurrentStreams"
      [] identifier = 4 -> "InitialWindowSize"
      [] identifier = 5 -> "MaxFrameSize"
      [] identifier = 6 -> "MaxHeaderListSize"
      [] OTHER -> ""

\* The while loop of SettingsParameter::deserialize.
RECURSIVE SettingsParameterLoop(_, _)
SettingsParameterLoop(b, settings_parameters) ==
    LET Named(name) ==
            IF name = ""
            THEN [status |-> "FrameError", parameters |-> <<>>]
            ELSE SettingsParameterLoop(
                     SliceFrom(b, 6),
                     Append(settings_parameters,
                            [name |-> name,
                             value |-> U32FromBeBytes(b[3], b[4], b[5], b[6])]))
    IN IF Len(b) = 0
       THEN [status |-> "Ok", parameters |-> settings_parameters]
       ELSE Named(SettingsParameterName(b[1] * 256 + b[2]))

\* SettingsParameter::deserialize(bytes).
SettingsParameterDeserialize(b) ==
    IF Len(b) % 6 # 0
    THEN [status |-> "FrameError", parameters |-> <<>>]
    ELSE SettingsParameterLoop(b, <<>>)

\* Settings::deserialize without the check that a frame with ACK is empty.
SettingsDeserializeAnyAck(header, payload, ht) ==
    LET Read(flags, read) ==
            IF read.status # "Ok" THEN Parsed(read.status, NoFrame, ht)
            ELSE Parsed("Ok",
                        [type |-> "Settings",
                         flags |-> flags,
                         ack |-> Contains(flags, "Ack"),
                         settings_parameters |-> read.parameters],
                        ht)
    IN Read(SettingsFlagParseFlags(header.frame_flags),
            SettingsParameterDeserialize(payload))

\* Settings::deserialize applying every HEADER_TABLE_SIZE parameter it reads
\* to the header table.
SettingsDeserializeApplying(header, payload, ht) ==
    LET RECURSIVE Applied(_, _)
        Applied(parameters, table) ==
            IF parameters = <<>> THEN table
            ELSE Applied(Tail(parameters),
                         IF Head(parameters).name = "HeaderTableSize"
                         THEN HeaderTableSetMaxSize(table, Head(parameters).value)
                         ELSE table)
        Read(flags, read) ==
            IF read.status # "Ok" THEN Parsed(read.status, NoFrame, ht)
            ELSE Parsed("Ok",
                        [type |-> "Settings",
                         flags |-> flags,
                         ack |-> Contains(flags, "Ack"),
                         settings_parameters |-> read.parameters],
                        Applied(read.parameters, ht))
        Flagged(flags) ==
            IF Contains(flags, "Ack") /\ Len(payload) # 0
            THEN Parsed("FrameError", NoFrame, ht)
            ELSE Read(flags, SettingsParameterDeserialize(payload))
    IN Flagged(SettingsFlagParseFlags(header.frame_flags))

\* Settings::deserialize(header, payload).
SettingsDeserialize(header, payload, ht) ==
    LET Read(flags, read) ==
            IF read.status # "Ok" THEN Parsed(read.status, NoFrame, ht)
            ELSE Parsed("Ok",
                        [type |-> "Settings",
                         flags |-> flags,
                         ack |-> Contains(flags, "Ack"),
                         settings_parameters |-> read.parameters],
                        ht)
        Flagged(flags) ==
            IF Contains(flags, "Ack") /\ Len(payload) # 0
            THEN Parsed("FrameError", NoFrame, ht)
            ELSE Read(flags, SettingsParameterDeserialize(payload))
    IN Flagged(SettingsFlagParseFlags(header.frame_flags))

\* PushPromiseFrame::deserialize_flags(byte).
PushPromiseFrameDeserializeFlags(byte) ==
    Flag(byte, 4, "EndHeaders") \o Flag(byte, 8, "Padded")

\* PushPromiseFrame::deserialize(frame_header, bytes, header_table):
\* bytes[0..3] are indexed without a check of the length.
PushPromiseFrameDeserialize(frame_header, b, ht, overflow_checks) ==
    LET Listed(frame_flags, p, list) ==
            IF list.status # "Ok" THEN Parsed(list.status, NoFrame, list.table)
            ELSE Parsed("Ok",
                        [type |-> "PushPromise",
                         stream_id |-> frame_header.stream_identifier,
                         end_headers |-> Contains(frame_flags, "EndHeaders"),
                         reserved |-> (p[1] \div 128) # 0,
                         promised_stream_id |->
                             U32FromBeBytes(BitAnd(p[1], 127), p[2], p[3], p[4]),
                         header_list |-> list.headers],
                        list.table)
        Unpadded(frame_flags, p) ==
            IF Len(p) < 4 THEN Parsed("Panic", NoFrame, ht)
            ELSE Listed(frame_flags, p,
                        HeaderListDecode(SliceFrom(p, 4), ht, overflow_checks))
        Stripped(frame_flags, stripped) ==
            IF stripped.status # "Ok" THEN Parsed(stripped.status, NoFrame, ht)
            ELSE Unpadded(frame_flags, stripped.bytes)
        Flagged(frame_flags) ==
            IF Contains(frame_flags, "Padded")
            THEN Stripped(frame_flags, StripPadding(b, frame_header.payload_length))
            ELSE Unpadded(frame_flags, b)
    IN IF Len(b) # frame_header.payload_length
       THEN Parsed("FrameError", NoFrame, ht)
       ELSE Flagged(PushPromiseFrameDeserializeFlags(frame_header.frame_flags))

\* PingFrame::deserialize_flags(byte).
PingFrameDeserializeFlags(byte) == Flag(byte, 1, "Ack")

\* PingFrame::deserialize(frame_header, bytes): bytes[0..8] panics on fewer
\* than 8 octets and ignores the octets after them.
PingFrameDeserialize(frame_header, b, ht) ==
    IF Len(b) # frame_header.payload_length
    THEN Parsed("FrameError", NoFrame, ht)
    ELSE IF Len(b) < 8 THEN Parsed("Panic", NoFrame, ht)
    ELSE Parsed("Ok",
                [type |-> "Ping",
                 ack |-> Contains(PingFrameDeserializeFlags(frame_header.frame_flags),
                                  "Ack"),
                 opaque_data |-> Slice(b, 0, 8)],
                ht)

\* GoAwayFrame::deserialize(frame_header, bytes): bytes[0..7] are indexed
\* without a check of the length.
GoAwayFrameDeserialize(frame_header, b, ht) ==
    IF Len(b) # frame_header.payload_length
    THEN Parsed("FrameError", NoFrame, ht)
    ELSE IF Len(b) < 8 THEN Parsed("Panic", NoFrame, ht)
    ELSE Parsed("Ok",
                [type |-> "GoAway",
                 reserved |-> (b[1] \div 128) # 0,
                 last_stream_id |->
                     U32FromBeBytes(BitAnd(b[1], 127), b[2], b[3], b[4]),
                 error_code |-> U32FromBeBytes(b[5], b[6], b[7], b[8]),
                 debug_data |-> IF frame_header.payload_length > 8
                                THEN <<Slice(b, 8, frame_header.payload_length)>>
                                ELSE <<>>],
                ht)

\* WindowUpdateFrame::deserialize(frame_header, bytes): bytes[0..3] are
\* indexed without a check of the length.
WindowUpdateFrameDeserialize(frame_header, b, ht) ==
    IF Len(b) # frame_header.payload_length
    THEN Parsed("FrameError", NoFrame, ht)
    ELSE IF Len(b) < 4 THEN Parsed("Panic", NoFrame, ht)
    ELSE Parsed("Ok",
                [type |-> "WindowUpdate",
                 stream_id |-> frame_header.stream_identifier,
                 reserved |-> (b[1] \div 128) # 0,
                 window_size_increment |->
                     U32FromBeBytes(BitAnd(b[1], 127), b[2], b[3], b[4])],
                ht)

\* ContinuationFrame::deserialize_flags(byte).
ContinuationFrameDeserializeFlags(byte) == Flag(byte, 4, "EndHeaders")

\* ContinuationFrame::deserialize(frame_header, bytes, header_tables).
ContinuationFrameDeserialize(frame_header, b, ht, overflow_checks) ==
    LET Listed(flags, list) ==
            IF list.status # "Ok" THEN Parsed(list.status, NoFrame, list.table)
            ELSE Parsed("Ok",
                        [type |-> "Continuation",
                         end_headers |-> Contains(flags, "EndHeaders"),
                         header_list |-> list.headers],
                        list.table)
    IN IF Len(b) # frame_header.payload_length
       THEN Parsed("FrameError", NoFrame, ht)
       ELSE Listed(ContinuationFrameDeserializeFlags(frame_header.frame_flags),
                   HeaderListDecode(Slice(b, 0, frame_header.payload_length), ht,
                                    overflow_checks))

\* The match on frame_header.frame_type() of Frame::deserialize.
FramePayloadDeserialize(frame_header, b, ht, overflow_checks) ==
    CASE frame_header.frame_type = 0 -> DataFrameDeserialize(frame_header, b, ht)
      [] frame_header.frame_type = 1 ->
            HeadersDeserialize(frame_header, b, ht, overflow_checks)
      [] frame_header.frame_type = 2 -> PriorityFrameDeserialize(frame_header, b, ht)
      [] frame_header.frame_type = 3 -> RstStreamFrameDeserialize(frame_header, b, ht)
      [] frame_header.frame_type = 4 -> SettingsDeserialize(frame_header, b, ht)
      [] frame_header.frame_type = 5 ->
            PushPromiseFrameDeserialize(frame_header, b, ht, overflow_checks)
      [] frame_header.frame_type = 6 -> PingFrameDeserialize(frame_header, b, ht)
      [] frame_header.frame_type = 7 -> GoAwayFrameDeserialize(frame_header, b, ht)
      [] frame_header.frame_type = 8 ->
            WindowUpdateFrameDeserialize(frame_header, b, ht)
      [] frame_header.frame_type = 9 ->
            ContinuationFrameDeserialize(frame_header, b, ht, overflow_checks)
      [] OTHER -> Parsed("FrameError", NoFrame, ht)

\* Frame::deserialize removing the frame from the caller's buffer before the
\* payload is parsed, whatever the parser returns.
FrameDeserializeShortening(s, ht, overflow_checks) ==
    LET Failed(status, table, left) ==
            [status |-> status, frame |-> NoFrame, stream |-> left, table |-> table]
        Dispatched(frame_header, parsed) ==
            IF parsed.status # "Ok"
            THEN Failed(parsed.status, parsed.table,
                        SliceFrom(s, 9 + frame_header.payload_length))
            ELSE [status |-> "Ok", frame |-> parsed.frame,
                  stream |-> SliceFrom(s, 9 + frame_header.payload_length),
                  table |-> parsed.table]
        Headed(h) ==
            IF h.status # "Ok" THEN Failed(h.status, ht, s)
            ELSE IF Len(h.bytes) < h.header.payload_length
            THEN Failed("NotEnoughBytes", ht, s)
            ELSE Dispatched(h.header,
                            FramePayloadDeserialize(
                                h.header,
                                Slice(h.bytes, 0, h.header.payload_length),
                                ht, overflow_checks))
    IN Headed(FrameHeaderDeserialize(s))

\* Frame::deserialize(stream, header_table): the parsers work on a copy of
\* the stream, which is shortened only after the payload parser succeeded.
FrameDeserialize(s, ht, overflow_checks) ==
    LET Failed(status, table) ==
            [status |-> status, frame |-> NoFrame, stream |-> s, table |-> table]
        Dispatched(frame_header, parsed) ==
            IF parsed.status # "Ok" THEN Failed(parsed.status, parsed.table)
            ELSE [status |-> "Ok", frame |-> parsed.frame,
                  stream |-> SliceFrom(s, 9 + frame_header.payload_length),
                  table |-> parsed.table]
        Headed(h) ==
            IF h.status # "Ok" THEN Failed(h.status, ht)
            ELSE IF Len(h.bytes) < h.header.payload_length
            THEN Failed("NotEnoughBytes", ht)
            ELSE Dispatched(h.header,
                            FramePayloadDeserialize(
                                h.header,
                                Slice(h.bytes, 0, h.header.payload_length),
                                ht, overflow_checks))
    IN Headed(FrameHeaderDeserialize(s))

(***************************************************************************)
(* Specification SpecFrame: Frame::deserialize called again and again on a *)
(* stream that holds a few frames one after the other.                     *)
(***************************************************************************)
\* Number of frames in the stream.
MaxFrames == 2

\* The octets of a frame: the 9-octet header (24-bit length, type, flags,
\* R bit and 31-bit stream identifier) and the payload.
FrameOctets(frame_type, frame_flags, stream_identifier, payload) ==
    <<0, Len(payload) \div 256, Len(payload) % 256, frame_type, frame_flags,
      0, 0, 0, stream_identifier>> \o payload

\* The header Frame::deserialize reads from FrameOctets(...).
HeaderOf(frame_type, frame_flags, stream_identifier, payload) ==
    [payload_length |-> Len(payload), frame_type |-> frame_type,
     frame_flags |-> frame_flags, reserved |-> FALSE,
     stream_identifier |-> stream_identifier]

\* A frame on the wire: its octets, whether the format of section 6 makes
\* it a valid frame, and the frame it stands for when it is valid.
Wire(octets, valid, frame) == [octets |-> octets, valid |-> valid, frame |-> frame]

NoPriority == [exclusivity |-> <<>>, stream_dependency |-> <<>>, weight |-> <<>>]

\* The header block 82 (":method: GET", indexed) and the block
\* 40 01 61 01 62 ("a: b", literal with incremental indexing).
MethodGet == <<130>>
LiteralAB == <<64, 1, 97, 1, 98>>

\* DATA frames: plain, empty, padded with one octet, padded with none.
DataFrames ==
    {Wire(FrameOctets(0, 0, 1, <<97, 98>>), TRUE,
          [type |-> "Data", stream_id |-> 1, end_stream |-> FALSE,
           data |-> <<97, 98>>]),
     Wire(FrameOctets(0, 1, 1, <<>>), TRUE,
          [type |-> "Data", stream_id |-> 1, end_stream |-> TRUE, data |-> <<>>]),
     Wire(FrameOctets(0, 9, 1, <<1, 97, 0>>), TRUE,
          [type |-> "Data", stream_id |-> 1, end_stream |-> TRUE,
           data |-> <<97>>]),
     Wire(FrameOctets(0, 8, 1, <<0, 97>>), TRUE,
          [type |-> "Data", stream_id |-> 1, end_stream |-> FALSE,
           data |-> <<97>>])}

\* HEADERS, PUSH_PROMISE and CONTINUATION frames.
HeaderBlockFrames ==
    {Wire(FrameOctets(1, 4, 1, MethodGet), TRUE,
          [type |-> "Headers", header |-> HeaderOf(1, 4, 1, MethodGet),
           header_list |-> <<STATIC_HEADER_FIELDS_TABLE_CONSTANTS[2]>>,
           parsed_flags |-> <<"EndHeaders">>,
           exclusivity |-> <<>>, stream_dependency |-> <<>>, weight |-> <<>>]),
     Wire(FrameOctets(1, 36, 3, <<0, 0, 0, 1, 15>> \o LiteralAB), TRUE,
          [type |-> "Headers",
           header |-> HeaderOf(1, 36, 3, <<0, 0, 0, 1, 15>> \o LiteralAB),
           header_list |-> <<HeaderField(<<97>>, <<98>>)>>,
           parsed_flags |-> <<"EndHeaders", "Priority">>,
           exclusivity |-> <<FALSE>>, stream_dependency |-> <<1>>,
           weight |-> <<15>>]),
     Wire(FrameOctets(5, 4, 1, <<0, 0, 0, 2>> \o MethodGet), TRUE,
          [type |-> "PushPromise", stream_id |-> 1, end_headers |-> TRUE,
           reserved |-> FALSE, promised_stream_id |-> 2,
           header_list |-> <<STATIC_HEADER_FIELDS_TABLE_CONSTANTS[2]>>]),
     Wire(FrameOctets(9, 4, 1, LiteralAB), TRUE,
          [type |-> "Continuation", end_headers |-> TRUE,
           header_list |-> <<HeaderField(<<97>>, <<98>>)>>])}

\* PRIORITY, RST_STREAM, SETTINGS, PING, GOAWAY and WINDOW_UPDATE frames.
ControlFrames ==
    {Wire(FrameOctets(2, 0, 3, <<0, 0, 0, 1, 15>>), TRUE,
          [type |-> "Priority", stream_id |-> 3,
           frame_priority |-> [exclusive |-> FALSE, stream_dependency |-> 1,
                               weight |-> 15]]),
     Wire(FrameOctets(3, 0, 1, <<0, 0, 0, 8>>), TRUE,
          [type |-> "RstStream", stream_id |-> 1, error_code |-> 8]),
     Wire(FrameOctets(4, 1, 0, <<>>), TRUE,
          [type |-> "Settings", flags |-> <<"Ack">>, ack |-> TRUE,
           settings_parameters |-> <<>>]),
     Wire(FrameOctets(4, 0, 0, <<0, 1, 0, 0, 16, 0>>), TRUE,
          [type |-> "Settings", flags |-> <<>>, ack |-> FALSE,
           settings_parameters |-> <<[name |-> "HeaderTableSize",
                                      value |-> 4096]>>]),
     Wire(FrameOctets(6, 1, 0, <<1, 2, 3, 4, 5, 6, 7, 8>>), TRUE,
          [type |-> "Ping", ack |-> TRUE,
           opaque_data |-> <<1, 2, 3, 4, 5, 6, 7, 8>>]),
     Wire(FrameOctets(7, 0, 0, <<0, 0, 0, 1, 0, 0, 0, 2, 33>>), TRUE,
          [type |-> "GoAway", reserved |-> FALSE, last_stream_id |-> 1,
           error_code |-> 2, debug_data |-> <<(<<33>>)>>]),
     Wire(FrameOctets(8, 0, 1, <<0, 0, 1, 0>>), TRUE,
          [type |-> "WindowUpdate", stream_id |-> 1, reserved |-> FALSE,
           window_size_increment |-> 256])}

\* Frames the format does not allow: a PING of 9 octets, a RST_STREAM of 5,
\* a SETTINGS of 5, a PING of 7, a padded DATA without a Pad Length octet,
\* a frame of type 0x0a, and a frame cut short of its payload.
OtherFrames ==
    {Wire(FrameOctets(6, 0, 0, <<1, 2, 3, 4, 5, 6, 7, 8, 9>>), FALSE, NoFrame),
     Wire(FrameOctets(3, 0, 1, <<0, 0, 0, 8, 0>>), FALSE, NoFrame),
     Wire(FrameOctets(4, 0, 0, <<0, 1, 0, 0, 16>>), FALSE, NoFrame),
     Wire(FrameOctets(6, 0, 0, <<1, 2, 3, 4, 5, 6, 7>>), FALSE, NoFrame),
     Wire(FrameOctets(0, 8, 1, <<>>), FALSE, NoFrame),
     Wire(FrameOctets(10, 0, 1, <<1>>), FALSE, NoFrame),
     Wire(<<0, 0, 4, 0, 0, 0, 0, 0, 1, 97, 98>>, FALSE, NoFrame)}

Wires == DataFrames \cup HeaderBlockFrames \cup ControlFrames \cup OtherFrames

WireSequences == UNION {[1..k -> Wires] : k \in 1..MaxFrames}

\* The octets of the frames of a sequence, one after the other.
RECURSIVE StreamOf(_)
StreamOf(wires) ==
    IF wires = <<>> THEN <<>> ELSE Head(wires).octets \o StreamOf(Tail(wires))

InitFrame ==
    /\ \E max_size \in BlockMaxSizes : header_table = HeaderTableNew(max_size)
    /\ sender_table = IdleTable
    /\ bytes = <<>>
    /\ headers = <<>>
    /\ inserted = NoHistory
    /\ \E wires \in WireSequences :
         /\ stream = StreamOf(wires)
         /\ last = [op |-> "input", wires |-> wires, calls |-> 0,
                    returned |-> <<>>]

\* Frame::deserialize(stream, header_table), once per frame put in the
\* stream.  last keeps the stream as it was before the call and the frames
\* returned so far.
Deserialize ==
    /\ last.op \in {"input", "Frame::deserialize"}
    /\ last.calls < Len(last.wires)
    /\ \E overflow_checks \in BOOLEAN :
         \E out \in {FrameDeserialize(stream, header_table, overflow_checks)} :
           /\ stream' = out.stream
           /\ header_table' = out.table
           /\ last' = [op |-> "Frame::deserialize", wires |-> last.wires,
                       calls |-> last.calls + 1,
                       pre |-> stream, status |-> out.status,
                       frame |-> out.frame,
                       returned |-> IF out.status = "Ok"
                                    THEN Append(last.returned, out.frame)
                                    ELSE last.returned]
    /\ UNCHANGED <<sender_table, bytes, headers, inserted>>

NextFrame == Deserialize

SpecFrame == InitFrame /\ [][NextFrame]_vars

\* The 24-bit payload length in the first three octets of a stream.
LengthField(s) == (s[1] * 256 + s[2]) * 256 + s[3]

\* C5: every successful Frame::deserialize removes exactly the first
\* 9 + payload_length octets of the buffer, whatever the frame type and
\* however many payload octets the parser used; so k calls on the
\* concatenation of k valid frames return those k frames in order and leave
\* the buffer empty.
C5_Framing ==
    last.op = "Frame::deserialize" =>
      /\ last.status = "Ok" =>
           /\ Len(last.pre) >= 9 + LengthField(last.pre)
           /\ stream = SubSeq(last.pre, 9 + LengthField(last.pre) + 1,
                              Len(last.pre))
      /\ (\A i \in 1..Len(last.wires) : last.wires[i].valid) =>
           /\ last.status = "Ok"
           /\ last.returned = [i \in 1..last.calls |-> last.wires[i].frame]
           /\ last.calls = Len(last.wires) => stream = <<>>

(***************************************************************************)
(* Specification SpecLockstep: a sender runs HeaderList::encode on header  *)
(* lists, one after the other, and a receiver runs HeaderList::decode on   *)
(* the octets of each, in the same order.  Both start from empty tables of *)
(* the same max_size.                                                      *)
(***************************************************************************)
\* Number of header fields in a header list.
MaxListLen == 2

\* The fields of the lists: "a: b" and ":method: b" are inserted when first
\* sent, "a:" has an empty value, ":method: GET" is in the static table.
ListFields ==
    {HeaderField(<<97>>, <<98>>),
     HeaderField(<<97>>, <<>>),
     HeaderField(STATIC_HEADER_FIELDS_TABLE_CONSTANTS[2].name, <<98>>),
     STATIC_HEADER_FIELDS_TABLE_CONSTANTS[2]}

HeaderLists == UNION {[1..k -> ListFields] : k \in 0..MaxListLen}

InitLockstep ==
    /\ \E max_size \in BlockMaxSizes :
         /\ sender_table = HeaderTableNew(max_size)
         /\ header_table = HeaderTableNew(max_size)
    /\ bytes = <<>>
    /\ stream = <<>>
    /\ headers = <<>>
    /\ last = NoCall
    /\ inserted = NoHistory

\* The sender encodes the next header list against its table; the octets
\* are handed to the receiver.
ListEncode ==
    /\ last = NoCall
    /\ \E header_fields \in HeaderLists :
         \E out \in {HeaderListEncode(header_fields, sender_table)} :
           /\ bytes' = out.bytes
           /\ sender_table' = out.table
           /\ last' = [op |-> "HeaderList::encode", list |-> header_fields,
                       octets |-> out.bytes]
    /\ UNCHANGED <<header_table, stream, headers, inserted>>

\* The receiver decodes the octets against its table.
ListDecode ==
    /\ last.op = "HeaderList::encode"
    /\ \E overflow_checks \in BOOLEAN :
         \E out \in {HeaderListDecode(bytes, header_table, overflow_checks)} :
           /\ bytes' = out.bytes
           /\ header_table' = out.table
           /\ headers' = out.headers
           /\ last' = [op |-> "HeaderList::decode", list |-> last.list,
                       octets |-> last.octets, status |-> out.status]
    /\ UNCHANGED <<sender_table, stream, inserted>>

\* Both sides are done with the list; the next one can be sent.
ListDone ==
    /\ last.op = "HeaderList::decode"
    /\ last' = NoCall
    /\ bytes' = <<>>
    /\ headers' = <<>>
    /\ UNCHANGED <<header_table, sender_table, stream, inserted>>

NextLockstep == ListEncode \/ ListDecode \/ ListDone

SpecLockstep == InitLockstep /\ [][NextLockstep]_vars

\* C1: starting from two empty tables of the same max_size, for every
\* sequence of header lists (values may be empty, insertions may evict), when
\* the sender encodes each list and the receiver decodes the octets in the
\* same order, every decode succeeds and returns the list, and after each
\* step the two dynamic tables have the same entries, size and max_size.
C1_Lockstep ==
    last.op = "HeaderList::decode" =>
      /\ last.status = "Ok"
      /\ headers = last.list
      /\ header_table.dynamic_table = sender_table.dynamic_table

(***************************************************************************)
(* Specification SpecParse: one call of Frame::deserialize on a buffer     *)
(* that holds one frame, well-formed or not, or the beginning of one.      *)
(***************************************************************************)
\* Largest Pad Length octet and largest number of octets after it.
MaxPadLength == 3
MaxPadded == 6

\* Largest number of parameters in a SETTINGS payload.
MaxParameters == 2

\* Largest payload of the frames of fixed length.
MaxPayload == 10

\* The first n octets of a sequence (all of it when it is shorter).
Take(v, n) == SubSeq(v, 1, IF n < Len(v) THEN n ELSE Len(v))

\* What follows the Pad Length octet: data octets for DATA, a header block
\* of indexed fields (":method: GET") for HEADERS, and the promised stream
\* identifier 2 followed by such a block for PUSH_PROMISE.
AfterPadLength(frame_type) ==
    CASE frame_type = 0 -> Run(97, MaxPadded)
      [] frame_type = 1 -> Run(130, MaxPadded)
      [] OTHER -> Take(<<0, 0, 0, 2>> \o Run(130, MaxPadded), MaxPadded)

\* DATA, HEADERS and PUSH_PROMISE frames with the PADDED flag (0x8), with or
\* without END_STREAM / END_HEADERS: no payload at all, or a Pad Length octet
\* and up to MaxPadded octets after it.
PaddedFrames ==
    {FrameOctets(t, f, 1, <<>>) : t \in {0, 1, 5}, f \in {8, 12}}
    \cup {FrameOctets(t, f, 1, <<p>> \o Take(AfterPadLength(t), n)) :
            t \in {0, 1, 5}, f \in {8, 12}, p \in 0..MaxPadLength,
            n \in 0..MaxPadded}

\* SETTINGS parameters: HEADER_TABLE_SIZE = 4096, INITIAL_WINDOW_SIZE = 7,
\* MAX_HEADER_LIST_SIZE = 1, and the identifiers 0, 7 and 0x0101 that name
\* no setting.
KnownParameters == {<<0, 1, 0, 0, 16, 0>>, <<0, 4, 0, 0, 0, 7>>, <<0, 6, 0, 0, 0, 1>>}
UnknownParameters == {<<0, 0, 0, 0, 0, 0>>, <<0, 7, 0, 0, 0, 1>>, <<1, 1, 0, 0, 0, 1>>}

RECURSIVE Concat(_)
Concat(vs) == IF vs = <<>> THEN <<>> ELSE Head(vs) \o Concat(Tail(vs))

\* SETTINGS frames with and without ACK: up to MaxParameters parameters,
\* followed by nothing or by the first octets of one more.
SettingsFrames ==
    {FrameOctets(4, f, 0, Concat(ps) \o extra) :
       f \in {0, 1},
       ps \in UNION {[1..k -> KnownParameters \cup UnknownParameters] :
                       k \in 0..MaxParameters},
       extra \in {<<>>, <<0>>, <<0, 1, 0>>, <<0, 1, 0, 0, 16>>}}

\* PRIORITY, RST_STREAM, PING, GOAWAY and WINDOW_UPDATE frames with payloads
\* of every length up to MaxPayload.
FixedLengthFrames ==
    {FrameOctets(t, f, 1, Run(1, n)) :
       t \in {2, 3, 6, 7, 8}, f \in {0, 1}, n \in 0..MaxPayload}

\* Frames whose type octet is none of 0x0..0x9.
UnknownTypeFrames ==
    {FrameOctets(t, 0, 1, Run(1, n)) : t \in {10, 11, 255}, n \in 0..2}

\* The buffer of scenario S5: DATA, END_STREAM | PADDED, stream 1, Pad
\* Length 2, "Hello, World!".
ScenarioS5 ==
    <<0, 0, 14, 0, 9, 0, 0, 0, 1, 2,
      72, 101, 108, 108, 111, 44, 32, 87, 111, 114, 108, 100, 33>>

\* Header block fragments: ":method: GET" indexed, "a: b" inserted, "a: b"
\* inserted and then a reference past the end of the table, "a: b" inserted
\* and then a size update to 0, a reference past the end of the table alone,
\* and a literal whose name announces five octets and brings one.
CutShort == <<64, 5, 97>>
Fragments ==
    {MethodGet, LiteralAB, LiteralAB \o <<191>>, LiteralAB \o <<32>>, <<191>>,
     CutShort}

\* The priority fields of a HEADERS frame: E set, stream dependency 3,
\* weight 15.
PriorityOctets == <<128, 0, 0, 3, 15>>

\* HEADERS frames with END_HEADERS (0x4), with or without PADDED (0x8) and
\* PRIORITY (0x20): the Pad Length octet, the priority fields, the fragment
\* and the padding; and frames with PRIORITY that leave fewer than 5 octets
\* once the padding is removed.
HeadersFrames ==
    {FrameOctets(1, 4, 1, fragment) : fragment \in Fragments}
    \cup {FrameOctets(1, 36, 1, PriorityOctets \o fragment) : fragment \in Fragments}
    \cup {FrameOctets(1, 12, 1, <<p>> \o fragment \o Run(0, p)) :
            fragment \in Fragments, p \in 1..2}
    \cup {FrameOctets(1, 44, 1, <<p>> \o PriorityOctets \o fragment \o Run(0, p)) :
            fragment \in Fragments, p \in 1..2}
    \cup {FrameOctets(1, 36, 1, Take(PriorityOctets, n)) : n \in 0..4}
    \cup {FrameOctets(1, 44, 1, <<2>> \o Take(PriorityOctets, n) \o Run(0, 2)) :
            n \in 0..4}

\* PUSH_PROMISE (promised stream 2) and CONTINUATION frames with
\* END_HEADERS.
PromiseAndContinuationFrames ==
    {FrameOctets(5, 4, 1, <<0, 0, 0, 2>> \o fragment) : fragment \in Fragments}
    \cup {FrameOctets(9, 4, 1, fragment) : fragment \in Fragments}

\* The buffers that stop before the end of a frame.
Truncations(frames) ==
    UNION {{SubSeq(b, 1, n) : n \in 0..(Len(b) - 1)} : b \in frames}

Buffers ==
    PaddedFrames \cup SettingsFrames \cup FixedLengthFrames
    \cup UnknownTypeFrames \cup {ScenarioS5}
    \cup HeadersFrames \cup PromiseAndContinuationFrames
    \cup Truncations(FixedLengthFrames \cup {ScenarioS5})

InitParse ==
    /\ \E max_size \in BlockMaxSizes : header_table = HeaderTableNew(max_size)
    /\ sender_table = IdleTable
    /\ bytes = <<>>
    /\ headers = <<>>
    /\ inserted = NoHistory
    /\ last = NoCall
    /\ stream \in Buffers

\* Frame::deserialize(stream, header_table), called once on the buffer; last
\* keeps the buffer and the table as they were before the call.
DeserializeBuffer ==
    /\ last = NoCall
    /\ \E overflow_checks \in BOOLEAN :
         \E out \in {FrameDeserialize(stream, header_table, overflow_checks)} :
           /\ stream' = out.stream
           /\ header_table' = out.table
           /\ last' = [op |-> "Frame::deserialize", pre |-> stream,
                       table |-> header_table,
                       status |-> out.status, frame |-> out.frame]
    /\ UNCHANGED <<sender_table, bytes, headers, inserted>>

NextParse == DeserializeBuffer

SpecParse == InitParse /\ [][NextParse]_vars

\* The fields of the frame header at the front of a buffer, and its payload.
TypeField(s) == s[4]
FlagsField(s) == s[5]
PayloadField(s) == SubSeq(s, 10, 9 + LengthField(s))

\* The buffer holds a whole frame: 9 octets of header and payload_length more.
Complete(s) == Len(s) >= 9 /\ Len(s) >= 9 + LengthField(s)

\* C11: when the buffer holds fewer than 9 octets, or a complete header but
\* fewer than payload_length further octets, Frame::deserialize returns the
\* not-enough-bytes error and no frame, and does not panic; this for every
\* buffer length from 0 to 9 + payload_length - 1.
C11_TruncatedFrame ==
    last.op = "Frame::deserialize" /\ ~Complete(last.pre) =>
      /\ last.status = "NotEnoughBytes"
      /\ last.frame = NoFrame

\* A buffer with a complete header and all but one octet of the payload.
C11_Witness ==
    /\ last.op = "Frame::deserialize"
    /\ Len(last.pre) >= 9
    /\ LengthField(last.pre) >= 2
    /\ Len(last.pre) = 9 + LengthField(last.pre) - 1
    /\ last.status = "NotEnoughBytes"

(***************************************************************************)
(* Specification SpecIntDecode: HpackInteger::decode on octets that no     *)
(* encoder need have produced: a first octet, continuation octets with the *)
(* high bit set and, or not, a last octet with the high bit clear.         *)
(***************************************************************************)
\* Largest number of continuation octets with the high bit set.
MaxContinuation == 5

\* Continuation octets with the high bit set: payload 0, 1 and 127.
ContinuationOctets == {128, 129, 255}

\* The buffers: nothing; or a first octet (prefix below its maximum, or at
\* its maximum) followed by continuation octets and by no last octet, or by
\* a last octet with the high bit clear.
IntegerBuffers(n) ==
    {<<>>}
    \cup {<<first>> \o more \o final :
            first \in {0, 2^n - 1},
            more \in UNION {[1..k -> ContinuationOctets] : k \in 0..MaxContinuation},
            final \in {<<>>, <<0>>, <<127>>}}

InitIntDecode ==
    /\ Idle
    /\ \E n \in 1..8 : \E b \in IntegerBuffers(n) :
         last = [op |-> "octets", n |-> n, octets |-> b]

\* HpackInteger::decode(n, bytes) on the buffer.
IntegerDecodeOctets ==
    /\ last.op = "octets"
    /\ \E overflow_checks \in BOOLEAN :
         \E decoded \in {HpackIntegerDecode(last.n, last.octets, overflow_checks)} :
           /\ bytes' = decoded.bytes
           /\ last' = [op |-> "HpackInteger::decode", n |-> last.n,
                       octets |-> last.octets, status |-> decoded.status,
                       decoded |-> decoded.value]
    /\ UNCHANGED <<header_table, sender_table, stream, headers, inserted>>

NextIntDecode == IntegerDecodeOctets

SpecIntDecode == InitIntDecode /\ [][NextIntDecode]_vars

\* The octets of a buffer that make up the integer, when the buffer holds
\* them all: the first octet alone when its prefix is below 2^n - 1, else the
\* octets up to the first one after it with the high bit clear.
RECURSIVE ContinuationEnd(_, _)
ContinuationEnd(b, i) ==
    IF i > Len(b) THEN 0
    ELSE IF b[i] < 128 THEN i
    ELSE ContinuationEnd(b, i + 1)

IntegerEnd(n, b) ==
    IF b = <<>> THEN 0
    ELSE IF b[1] % 2^n < 2^n - 1 THEN 1
    ELSE ContinuationEnd(b, 2)

\* The value of continuation octets i..j of b, octet i weighing 2^shift;
\* anything above the bound of the accumulator counts as the bound plus one.
RECURSIVE ContinuationValue(_, _, _, _)
ContinuationValue(b, i, j, shift) ==
    IF i > j THEN 0
    ELSE LET rest == ContinuationValue(b, i + 1, j, shift + 7)
             here == IF b[i] % 128 = 0 THEN 0
                     ELSE IF shift >= IntegerBits THEN U128Max + 1
                     ELSE (b[i] % 128) * 2^shift
         IN IF here + rest > U128Max THEN U128Max + 1 ELSE here + rest

IntegerValue(n, b) ==
    IF IntegerEnd(n, b) = 1 THEN b[1] % 2^n
    ELSE LET more == ContinuationValue(b, 2, IntegerEnd(n, b), 0) IN
         IF 2^n - 1 + more > U128Max THEN U128Max + 1 ELSE 2^n - 1 + more

\* C12: for every prefix size N in 1..8 and every input, HpackInteger::decode
\* returns a typed error, and neither panics nor wraps around nor reads past
\* the end of the buffer, (a) when the octets run out before an octet with
\* the high bit clear and (b) when the value exceeds the bound of the
\* accumulator, however many continuation octets are supplied; a value it
\* returns is the value the octets stand for.
C12_IntegerFailureModes ==
    last.op = "HpackInteger::decode" =>
      /\ last.status \in {"Ok", "HpackError"}
      /\ IntegerEnd(last.n, last.octets) = 0 => last.status = "HpackError"
      /\ IntegerEnd(last.n, last.octets) > 0
         /\ IntegerValue(last.n, last.octets) > U128Max => last.status = "HpackError"
      /\ last.status = "Ok" =>
           /\ IntegerEnd(last.n, last.octets) > 0
           /\ last.decoded = IntegerValue(last.n, last.octets)

\* The frame at the front of the buffer is a DATA, HEADERS or PUSH_PROMISE
\* frame with the PADDED flag (0x8).
Padded(s) ==
    /\ Complete(s)
    /\ TypeField(s) \in {0, 1, 5}
    /\ (FlagsField(s) \div 8) % 2 = 1

\* C13: for a DATA, HEADERS or PUSH_PROMISE frame with the PADDED flag, a
\* payload in which pad_length + 1 exceeds payload_length (payload_length = 0
\* and pad_length = payload_length included) is rejected with FrameError; the
\* parser does not panic and returns no frame.
C13_PaddingBound ==
    last.op = "Frame::deserialize"
    /\ Padded(last.pre)
    /\ (LengthField(last.pre) = 0
        \/ PayloadField(last.pre)[1] + 1 > LengthField(last.pre)) =>
      /\ last.status = "FrameError"
      /\ last.frame = NoFrame

\* The same frame sent without padding: the PADDED flag cleared and the Pad
\* Length octet removed.
WithoutPadding(s) ==
    FrameOctets(TypeField(s), FlagsField(s) - 8, s[9], Tail(PayloadField(s)))

\* What a frame carries besides its header and flags.
Content(frame) ==
    IF frame.type = "Headers"
    THEN [header_list |-> frame.header_list, exclusivity |-> frame.exclusivity,
          stream_dependency |-> frame.stream_dependency, weight |-> frame.weight]
    ELSE frame

\* C14: a DATA, HEADERS or PUSH_PROMISE frame with the PADDED flag and Pad
\* Length 0 decodes successfully, and its content is the whole payload after
\* the Pad Length octet: it is what the frame decodes to when it is sent
\* without padding.
C14_ZeroPadding ==
    last.op = "Frame::deserialize"
    /\ Padded(last.pre)
    /\ LengthField(last.pre) >= 1
    /\ PayloadField(last.pre)[1] = 0 =>
      \A overflow_checks \in BOOLEAN :
        LET Same(plain) ==
                plain.status = "Ok" =>
                  /\ last.status = "Ok"
                  /\ Content(last.frame) = Content(plain.frame)
        IN Same(FrameDeserialize(WithoutPadding(last.pre), last.table,
                                 overflow_checks))

\* The frame at the front of the buffer is a SETTINGS frame, with ACK (0x1)
\* or without.
IsSettings(s) == Complete(s) /\ TypeField(s) = 4
HasAck(s) == FlagsField(s) % 2 = 1

\* The i-th 6-octet parameter of a SETTINGS payload: its 16-bit identifier
\* and its 32-bit value.
IdentifierAt(payload, i) == payload[6 * i - 5] * 256 + payload[6 * i - 4]
ValueAt(payload, i) ==
    ((payload[6 * i - 3] * 256 + payload[6 * i - 2]) * 256
       + payload[6 * i - 1]) * 256 + payload[6 * i]

\* The parameters of a payload whose identifiers are in `known`, in wire
\* order (parameters first..Len(payload) / 6).
RECURSIVE ParametersFrom(_, _, _)
ParametersFrom(payload, first, known) ==
    IF first > Len(payload) \div 6 THEN <<>>
    ELSE (IF IdentifierAt(payload, first) \in known
          THEN <<[name |-> SettingsParameterName(IdentifierAt(payload, first)),
                  value |-> ValueAt(payload, first)]>>
          ELSE <<>>)
         \o ParametersFrom(payload, first + 1, known)

C16_UnknownSettings ==
    last.op = "Frame::deserialize"
    /\ IsSettings(last.pre)
    /\ ~HasAck(last.pre)
    /\ LengthField(last.pre) % 6 = 0
    /\ (\E i \in 1..(LengthField(last.pre) \div 6) :
          IdentifierAt(PayloadField(last.pre), i) \notin 1..6) =>
      /\ last.status = "Ok"
      /\ last.frame.type = "Settings"
      /\ last.frame.settings_parameters
           = ParametersFrom(PayloadField(last.pre), 1, 1..6)

\* C17: Frame::deserialize returns FrameError, and neither panics nor returns
\* a frame, when payload_length is not exactly 5 for PRIORITY, not exactly 4
\* for RST_STREAM, not exactly 8 for PING, not exactly 4 for WINDOW_UPDATE, or
\* is less than 8 for GOAWAY; shorter and longer payloads alike.
C17_FixedLengths ==
    LET WrongLength(s) ==
            \/ TypeField(s) = 2 /\ LengthField(s) # 5
            \/ TypeField(s) = 3 /\ LengthField(s) # 4
            \/ TypeField(s) = 6 /\ LengthField(s) # 8
            \/ TypeField(s) = 8 /\ LengthField(s) # 4
            \/ TypeField(s) = 7 /\ LengthField(s) < 8
    IN
    (last.op = "Frame::deserialize" /\ Complete(last.pre) /\ WrongLength(last.pre))
      => (last.status = "FrameError" /\ last.frame = NoFrame)

\* C18: for every buffer holding a complete frame whose type octet is
\* outside 0x0..0x9, Frame::deserialize returns the UnknownFrameType error, a
\* kind distinct from FrameError and from the not-enough-bytes error, and
\* returns no frame.
C18_UnknownFrameType ==
    (last.op = "Frame::deserialize" /\ Complete(last.pre)
     /\ TypeField(last.pre) \notin 0..9)
      => /\ last.status = "UnknownFrameType"
         /\ last.status \notin {"FrameError", "NotEnoughBytes"}
         /\ last.frame = NoFrame

\* "Hello, World!"
HelloWorld == <<72, 101, 108, 108, 111, 44, 32, 87, 111, 114, 108, 100, 33>>

\* C19 as scenario S5 states it: decoding the 23-octet buffer (DATA,
\* END_STREAM | PADDED, stream 1, Pad Length 2) returns a DATA frame with
\* stream_id = 1, end_stream = true and data equal to the 10 octets
\* "Hello, Wor", and advances the buffer by 23 octets.
C19_ScenarioS5 ==
    last.op = "Frame::deserialize" /\ last.pre = ScenarioS5 =>
      /\ last.status = "Ok"
      /\ last.frame = [type |-> "Data", stream_id |-> 1, end_stream |-> TRUE,
                       data |-> SubSeq(HelloWorld, 1, 10)]
      /\ stream = <<>>

\* C19, amended: of the 14 payload octets one is the Pad Length and two are
\* padding, so the data is the 11 octets "Hello, Worl"; the frame has
\* stream_id = 1 and end_stream = true and the buffer is advanced by 23 octets.
C19_ScenarioS5Data ==
    last.op = "Frame::deserialize" /\ last.pre = ScenarioS5 =>
      /\ last.status = "Ok"
      /\ last.frame = [type |-> "Data", stream_id |-> 1, end_stream |-> TRUE,
                       data |-> SubSeq(HelloWorld, 1, 11)]
      /\ Len(last.frame.data) = LengthField(last.pre) - 1 - PayloadField(last.pre)[1]
      /\ stream = <<>>

\* The buffer of S5 has been decoded.
C19_Witness ==
    /\ last.op = "Frame::deserialize"
    /\ last.pre = ScenarioS5
    /\ last.status = "Ok"
    /\ last.frame.type = "Data"
    /\ stream = <<>>


(***************************************************************************)
(* Huffman-coded strings: HpackString::encode with huffman_encode set,     *)
(* followed by HpackString::decode.                                        *)
(***************************************************************************)
InitHuffman ==
    /\ Idle
    /\ \E s \in Strings, rest \in Trailers :
         last = [op |-> "input", s |-> s, huffman_encode |-> TRUE, rest |-> rest]

SpecHuffman == InitHuffman /\ [][NextStr]_vars

\* The code of a symbol in the canonical table.
CodeOf(sym) == (CHOOSE c \in HuffmanCodes : c.sym = sym).code

\* The code bits of a string, most significant bit first (the string is
\* halved rather than walked, which keeps the evaluation shallow).
RECURSIVE CodeBits(_)
CodeBits(s) ==
    IF s = <<>> THEN <<>>
    ELSE IF Len(s) = 1 THEN CodeOf(s[1])
    ELSE CodeBits(SubSeq(s, 1, Len(s) \div 2))
         \o CodeBits(SubSeq(s, (Len(s) \div 2) + 1, Len(s)))

\* Bits packed into octets, the last octet filled with ones (the EOS prefix).
PackBits(bits) ==
    LET Bit(k) == IF k <= Len(bits) THEN bits[k] ELSE 1
        Weigh(j, i) == Bit(8 * (j - 1) + i) * 2^(8 - i)
    IN [j \in 1..((Len(bits) + 7) \div 8) |->
           Weigh(j, 1) + Weigh(j, 2) + Weigh(j, 3) + Weigh(j, 4)
           + Weigh(j, 5) + Weigh(j, 6) + Weigh(j, 7) + Weigh(j, 8)]

\* The Huffman coding of a string.
HuffmanCoding(s) == PackBits(CodeBits(s))

\* The string literal of s with the H bit: the length of the coding on a
\* 7-bit prefix with the top bit set, then the coding.
HuffmanLiteral(s) ==
    LET Literal(coding) ==
            LET prefix == HpackIntegerEncode(Len(coding), 7).bytes IN
            <<BitOr(prefix[1], 128)>> \o Tail(prefix) \o coding
    IN Literal(HuffmanCoding(s))

\* C20: for every string s, HpackString::encode(s, huffman = true) writes the
\* H bit, the length of the Huffman coding of s and that coding (not the
\* length of s and its raw octets), and HpackString::decode applied to it
\* returns s and leaves the trailing octets in the buffer.
C20_HuffmanRoundTrip ==
    /\ (last.op = "HpackString::encode" /\ last.huffman_encode) =>
           bytes = HuffmanLiteral(last.s) \o last.rest
    /\ (last.op = "HpackString::decode" /\ last.huffman_encode) =>
           /\ last.status = "Ok"
           /\ last.decoded = last.s
           /\ bytes = last.rest

(***************************************************************************)
(* DataFrame::serialize (src/frame/data.rs) followed by Frame::deserialize *)
(* on its output.  FrameHeader::new and FrameHeader::serialize are called  *)
(* by DataFrame::serialize but are not part of src/frame/mod.rs; the       *)
(* header's octets follow the layout of the 9-octet frame header.          *)
(***************************************************************************)
\* FrameHeader::new(payload_length, frame_type, frame_flags, reserved,
\* stream_identifier).
FrameHeaderNew(payload_length, frame_type, frame_flags, reserved, stream_identifier) ==
    [payload_length |-> payload_length, frame_type |-> frame_type,
     frame_flags |-> frame_flags, reserved |-> reserved,
     stream_identifier |-> stream_identifier]

\* FrameHeader::serialize: 3 octets of length, the type, the flags, R and the
\* 31 bits of the stream identifier, all big-endian.
FrameHeaderSerialize(header) ==
    << (header.payload_length \div 65536) % 256,
       (header.payload_length \div 256) % 256,
       header.payload_length % 256,
       header.frame_type,
       header.frame_flags,
       (IF header.reserved THEN 128 ELSE 0)
           + ((header.stream_identifier \div 16777216) % 128),
       (header.stream_identifier \div 65536) % 256,
       (header.stream_identifier \div 256) % 256,
       header.stream_identifier % 256 >>

\* Option<Vec<u8>>.
None == [some |-> FALSE, octets |-> <<>>]
Some(octets) == [some |-> TRUE, octets |-> octets]

\* DataFrame::new(stream_id, end_stream, data).
DataFrameNew(stream_id, end_stream, data) ==
    [type |-> "Data", stream_id |-> stream_id, end_stream |-> end_stream,
     data |-> data]

\* DataFrame::serialize(&self, padding).
DataFrameSerialize(self, padding) ==
    LET payload ==
            IF padding.some
            THEN <<AsU8(Len(padding.octets))>> \o self.data \o padding.octets
            ELSE self.data
        frame_flags ==
            BitOr(IF self.end_stream THEN 1 ELSE 0, IF padding.some THEN 8 ELSE 0)
        header == FrameHeaderNew(Len(payload), 0, frame_flags, FALSE, self.stream_id)
    IN IF padding.some /\ Len(padding.octets) > 255
       THEN [status |-> "Panic", bytes |-> <<>>]
       ELSE [status |-> "Ok", bytes |-> FrameHeaderSerialize(header) \o payload]

\* The longest data of a frame handed to DataFrame::serialize.
MaxData == 2

\* The frames and paddings handed to DataFrame::serialize: stream identifiers
\* at both ends of the 31 bits, paddings of no octet, of a few octets, and
\* around the limit of 255 octets.
StreamIds == {0, 1, 2147483647}
DataOctets == {0, 72}
SerializedFrames ==
    {DataFrameNew(stream_id, end_stream, data) :
        stream_id \in StreamIds, end_stream \in BOOLEAN,
        data \in UNION {[1..k -> DataOctets] : k \in 0..MaxData}}
Paddings == {None} \cup {Some(Run(0, n)) : n \in {0, 1, 2, 255, 256}}

InitData ==
    /\ Idle
    /\ \E frame \in SerializedFrames, padding \in Paddings :
         last = [op |-> "input", frame |-> frame, padding |-> padding]

\* DataFrame::serialize(padding); the output becomes the receiver's buffer.
Serialize ==
    /\ last.op = "input"
    /\ LET out == DataFrameSerialize(last.frame, last.padding) IN
         /\ stream' = out.bytes
         /\ last' = [op |-> "DataFrame::serialize", frame |-> last.frame,
                     padding |-> last.padding, status |-> out.status]
    /\ UNCHANGED <<header_table, sender_table, bytes, headers, inserted>>

\* Frame::deserialize on the serialized frame.
DeserializeSerialized ==
    /\ last.op = "DataFrame::serialize"
    /\ last.status = "Ok"
    /\ \E overflow_checks \in BOOLEAN :
         \E out \in {FrameDeserialize(stream, header_table, overflow_checks)} :
           /\ stream' = out.stream
           /\ header_table' = out.table
           /\ last' = [op |-> "Frame::deserialize", frame |-> last.frame,
                       padding |-> last.padding, status |-> out.status,
                       decoded |-> out.frame, pre |-> stream]
    /\ UNCHANGED <<sender_table, bytes, headers, inserted>>

NextData == Serialize \/ DeserializeSerialized

SpecData == InitData /\ [][NextData]_vars

\* A padding DataFrame::serialize accepts.
Accepted(padding) == ~padding.some \/ Len(padding.octets) <= 255

\* C21: for every DataFrame and every padding accepted by serialize (None or
\* Some of 0 to 255 octets), serialize writes payload length = data length
\* (+ 1 + padding length when padded), type 0x0, flag 0x01 iff end_stream and
\* flag 0x08 iff padding is given, and Frame::deserialize on the output
\* returns Frame::Data equal to the original frame and consumes the output.
C21_DataRoundTrip ==
    /\ (last.op = "DataFrame::serialize" /\ Accepted(last.padding)) =>
           /\ last.status = "Ok"
           /\ Len(stream) >= 9
           /\ LengthField(stream) =
                  Len(last.frame.data)
                  + (IF last.padding.some THEN 1 + Len(last.padding.octets) ELSE 0)
           /\ Len(stream) = 9 + LengthField(stream)
           /\ TypeField(stream) = 0
           /\ FlagsField(stream) =
                  (IF last.frame.end_stream THEN 1 ELSE 0)
                  + (IF last.padding.some THEN 8 ELSE 0)
    /\ (last.op = "Frame::deserialize") =>
           /\ last.status = "Ok"
           /\ last.decoded = last.frame
           /\ stream = <<>>

(***************************************************************************)
(* Two receivers: Frame::deserialize on a buffer and on the same buffer    *)
(* with the R bit of the frame header set, each with its own header table  *)
(* (stream and header_table for the first, bytes and sender_table for the  *)
(* second), both of the same build.                                        *)
(***************************************************************************)
\* The buffer with the high bit of the sixth octet set.
WithReservedBit(s) == [s EXCEPT ![6] = BitOr(s[6], 128)]

\* No call made yet.
NotCalled == [status |-> "none", frame |-> NoFrame]

InitReserved ==
    /\ headers = <<>>
    /\ inserted = NoHistory
    /\ \E max_size \in BlockMaxSizes :
         /\ header_table = HeaderTableNew(max_size)
         /\ sender_table = HeaderTableNew(max_size)
    /\ \E wire \in Wires, rest \in Trailers, overflow_checks \in BOOLEAN :
         /\ stream = wire.octets \o rest
         /\ bytes = WithReservedBit(wire.octets \o rest)
         /\ last = [op |-> "input", overflow_checks |-> overflow_checks,
                    clear |-> NotCalled, set |-> NotCalled]

\* Frame::deserialize(stream, header_table) on the buffer with R clear.
DeserializeClear ==
    /\ last.clear = NotCalled
    /\ \E out \in {FrameDeserialize(stream, header_table, last.overflow_checks)} :
         /\ stream' = out.stream
         /\ header_table' = out.table
         /\ last' = [last EXCEPT !.op = "Frame::deserialize",
                                 !.clear = [status |-> out.status,
                                            frame |-> out.frame]]
    /\ UNCHANGED <<sender_table, bytes, headers, inserted>>

\* Frame::deserialize(bytes, sender_table) on the buffer with R set.
DeserializeSet ==
    /\ last.set = NotCalled
    /\ \E out \in {FrameDeserialize(bytes, sender_table, last.overflow_checks)} :
         /\ bytes' = out.stream
         /\ sender_table' = out.table
         /\ last' = [last EXCEPT !.op = "Frame::deserialize",
                                 !.set = [status |-> out.status,
                                          frame |-> out.frame]]
    /\ UNCHANGED <<header_table, stream, headers, inserted>>

NextReserved == DeserializeClear \/ DeserializeSet

SpecReserved == InitReserved /\ [][NextReserved]_vars

\* The stream identifier a frame carries, for the frames that keep one.
StreamIdentifierOf(frame) ==
    IF "stream_id" \in DOMAIN frame THEN <<frame.stream_id>>
    ELSE IF "header" \in DOMAIN frame THEN <<frame.header.stream_identifier>>
    ELSE <<>>

\* Both receivers have returned.
BothCalled == last.clear # NotCalled /\ last.set # NotCalled

\* C22: for two buffers that differ only in the R bit of the frame header,
\* Frame::deserialize gives the same outcome (equal frame or the same
\* error), the same 31-bit stream identifier, the same buffer advance and the
\* same header table.
C22_ReservedBitIgnored ==
    BothCalled =>
        /\ last.clear.status = last.set.status
        /\ last.clear.frame = last.set.frame
        /\ StreamIdentifierOf(last.clear.frame) = StreamIdentifierOf(last.set.frame)
        /\ Len(stream) = Len(bytes)
        /\ header_table = sender_table

(***************************************************************************)
(* Eviction order of the dynamic table, checked under SpecTable.           *)
(***************************************************************************)
\* The reference procedure's first half: the oldest entries are removed until
\* the entries left fit in room octets or none is left.
RECURSIVE RemoveOldest(_, _)
RemoveOldest(entries, room) ==
    IF entries = <<>> \/ Octets(entries) <= room THEN entries
    ELSE RemoveOldest(SubSeq(entries, 1, Len(entries) - 1), room)

\* The reference procedure: remove the oldest entries until size + size(e)
\* <= max_size or the table is empty, then insert e at position 0 only if
\* size(e) <= max_size.
EvictBeforeInsert(dt, e) ==
    LET Inserted(kept) ==
            IF Octets(<<e>>) <= dt.max_size THEN <<e>> \o kept ELSE kept
        Built(entries) ==
            [entries |-> entries, size |-> Octets(entries), max_size |-> dt.max_size]
    IN Built(Inserted(RemoveOldest(dt.entries, dt.max_size - Octets(<<e>>))))

\* C23: DynamicTable::add_entry (insert e at the front, then pop from the
\* tail while size > max_size) ends in the same table as the reference
\* procedure that evicts before inserting; when size(e) > max_size the table
\* ends empty and e is not in it; and an entry is never evicted while an
\* older entry stays (the old entries kept are the newest ones, in order).
C23_EvictBeforeInsert ==
    last.op = "HeaderTable::add_entry" =>
        LET pre == last.pre.dynamic_table
            post == header_table.dynamic_table
            e == last.arg.field
            old == IF post.entries # <<>> /\ Octets(<<e>>) <= pre.max_size
                   THEN Tail(post.entries) ELSE post.entries
        IN /\ last.res.status = "Ok"
           /\ post = EvictBeforeInsert(pre, e)
           /\ Octets(<<e>>) > pre.max_size => post.entries = <<>>
           /\ Octets(<<e>>) <= pre.max_size => Head(post.entries) = e
           /\ Len(old) <= Len(pre.entries)
           /\ old = SubSeq(pre.entries, 1, Len(old))

\* An insertion that evicts the oldest entry and keeps a newer one behind the
\* new entry.
C23_Witness ==
    /\ last.op = "HeaderTable::add_entry"
    /\ Len(last.pre.dynamic_table.entries) >= 2
    /\ Len(header_table.dynamic_table.entries) >= 2
    /\ Len(header_table.dynamic_table.entries)
         < Len(last.pre.dynamic_table.entries) + 1

\* C27: DynamicTable::set_max_size(m) never adds, changes or reorders
\* entries: the entries afterwards are the longest prefix (newest first) of
\* the entries before whose total size is <= m, so the table is unchanged
\* when m >= the current size and empty when m = 0, and a second
\* set_max_size(m) changes nothing.  The entries kept by add_entry follow the
\* same prefix rule.
C27_NewestFirstPrefix ==
    /\ last.op = "HeaderTable::set_max_size" =>
         LET pre == last.pre.dynamic_table
             post == header_table.dynamic_table
             m == last.arg.max_size
         IN /\ post.entries = FittingPrefix(pre.entries, m)
            /\ post.size = Octets(post.entries)
            /\ post.max_size = m
            /\ m >= pre.size => post.entries = pre.entries
            /\ m = 0 => post.entries = <<>>
            /\ DynamicTableSetMaxSize(post, m) = post
    /\ last.op = "HeaderTable::add_entry" =>
         LET pre == last.pre.dynamic_table
             post == header_table.dynamic_table
         IN post.entries
              = FittingPrefix(<<last.arg.field>> \o pre.entries, pre.max_size)

\* A set_max_size that evicts the oldest of two entries and keeps the newest.
C27_Witness ==
    /\ last.op = "HeaderTable::set_max_size"
    /\ Len(last.pre.dynamic_table.entries) = 2
    /\ header_table.dynamic_table.entries
         = <<last.pre.dynamic_table.entries[1]>>
    /\ last.arg.max_size > 0

(***************************************************************************)
(* A header block that fails part of the way, checked under SpecBlock.     *)
(***************************************************************************)
\* The table left by applying representations one after the other.
RECURSIVE TableAfter(_, _, _)
TableAfter(reps, ht, overflow_checks) ==
    IF reps = <<>> THEN ht
    ELSE TableAfter(Tail(reps),
                    HeaderFieldFromRepresentation(Head(reps), ht,
                                                  overflow_checks).table,
                    overflow_checks)

\* The call in progress has returned an error.
DecodeFailed ==
    /\ last.op = "HeaderList::decode"
    /\ last.status \notin {"Loop", "Ok", "Panic"}

\* The frames that carry a header block: HEADERS, PUSH_PROMISE (after the
\* promised stream identifier) and CONTINUATION.
CarryingFrames(block) ==
    {FrameOctets(1, 4, 1, block),
     FrameOctets(5, 4, 1, <<0, 0, 0, 2>> \o block),
     FrameOctets(9, 4, 1, block)}

\* C24: if HeaderList::decode, called directly or through a HEADERS,
\* PUSH_PROMISE or CONTINUATION frame, fails at the k-th representation of a
\* block, the header table is left as produced by applying representations
\* 1..k-1 in order (insertions, evictions and size updates are kept) and no
\* header list is returned.
C24_NoRollback ==
    /\ (last.op = "HeaderList::decode" /\ last.status = "Loop") =>
           \A overflow_checks \in BOOLEAN :
               LET out == HeaderListDecode(BlockOctets(last.reps) \o CutShort,
                                           last.tables[1], overflow_checks)
               IN /\ out.status = "HpackError"
                  /\ out.headers = <<>>
                  /\ out.table = header_table
    /\ DecodeFailed =>
        LET k == Len(last.reps)
            applied == SubSeq(last.reps, 1, k - 1)
            block == BlockOctets(last.reps) \o bytes
        IN /\ headers = <<>>
           /\ \A overflow_checks \in BOOLEAN :
                /\ header_table = TableAfter(applied, last.tables[1], overflow_checks)
                /\ \A s \in CarryingFrames(block) :
                     LET out == FrameDeserialize(s, last.tables[1], overflow_checks) IN
                     /\ out.status = last.status
                     /\ out.frame = NoFrame
                     /\ out.table = header_table

\* A block that fails at its third representation after an insertion and a
\* size update that evicted an entry: the table is no longer the one the call
\* started with.
C24_Witness ==
    /\ DecodeFailed
    /\ Len(last.reps) = 3
    /\ last.reps[2].kind = "SizeUpdate"
    /\ Len(last.tables[3].dynamic_table.entries)
         < Len(last.tables[2].dynamic_table.entries)
    /\ header_table # last.tables[1]
    /\ header_table.dynamic_table.max_size # last.tables[1].dynamic_table.max_size

(***************************************************************************)
(* The caller's buffer and header table around one Frame::deserialize,     *)
(* checked under SpecParse.                                                *)
(***************************************************************************)
\* The call returned an error.
ReturnedError ==
    /\ last.op = "Frame::deserialize"
    /\ last.status \notin {"Ok", "Panic"}

\* C25: whenever Frame::deserialize returns an error, for any reason (too few
\* octets, unknown type, payload FrameError, HPACK error inside a header
\* block), the caller's input buffer is byte-for-byte the same as before the
\* call.
C25_BufferUntouchedOnFailure ==
    ReturnedError => stream = last.pre

\* A complete HEADERS frame whose block fails in the HPACK decoder after an
\* insertion: the header table has changed and the buffer has not.
C25_Witness ==
    /\ ReturnedError
    /\ Complete(last.pre)
    /\ TypeField(last.pre) = 1
    /\ last.status = "IndexationError"
    /\ header_table # last.table
    /\ stream = last.pre

\* A complete HEADERS frame whose padding, if any, fits in the payload.
HeadersLaidOut(s) ==
    /\ Complete(s)
    /\ TypeField(s) = 1
    /\ Padded(s) =>
         /\ PayloadField(s) # <<>>
         /\ PayloadField(s)[1] + 1 <= Len(PayloadField(s))

\* The payload of a HEADERS frame without the Pad Length octet and the
\* padding.
Unpadded(s) ==
    IF Padded(s)
    THEN SubSeq(PayloadField(s), 2, Len(PayloadField(s)) - PayloadField(s)[1])
    ELSE PayloadField(s)

\* The PRIORITY flag (0x20) of a frame.
HasPriority(s) == (FlagsField(s) \div 32) % 2 = 1

\* The header block fragment of a HEADERS frame: what is left of the
\* unpadded payload after the 5 octets of the priority fields, if any.
FragmentOf(s) ==
    IF HasPriority(s) THEN SubSeq(Unpadded(s), 6, Len(Unpadded(s)))
    ELSE Unpadded(s)

\* C28: for a HEADERS frame the octets given to the HPACK decoder are the
\* payload without the leading Pad Length octet and the trailing pad_length
\* octets when PADDED is set, and without the next 5 octets (E bit, 31-bit
\* stream dependency, 8-bit weight) when PRIORITY is set, the priority fields
\* being read after the padding has been removed; with PRIORITY set and fewer
\* than 5 octets left the result is FrameError; on success the header table
\* is the table HeaderList::decode leaves on exactly that fragment.
C28_HeadersLayout ==
    (last.op = "Frame::deserialize" /\ HeadersLaidOut(last.pre)) =>
        LET s == last.pre
            left == Unpadded(s)
        IN IF HasPriority(s) /\ Len(left) < 5
           THEN /\ last.status = "FrameError"
                /\ header_table = last.table
           ELSE \E overflow_checks \in BOOLEAN :
                  LET list == HeaderListDecode(FragmentOf(s), last.table,
                                               overflow_checks)
                  IN /\ last.status = list.status
                     /\ header_table = list.table
                     /\ last.status = "Ok" =>
                          /\ last.frame.header_list = list.headers
                          /\ HasPriority(s) =>
                               /\ last.frame.exclusivity = <<left[1] >= 128>>
                               /\ last.frame.stream_dependency
                                    = <<U32FromBeBytes(left[1] % 128, left[2],
                                                       left[3], left[4])>>
                               /\ last.frame.weight = <<left[5]>>
                          /\ ~HasPriority(s) =>
                               /\ last.frame.exclusivity = <<>>
                               /\ last.frame.stream_dependency = <<>>
                               /\ last.frame.weight = <<>>

(***************************************************************************)
(* Specification SpecOrder: one encoder runs HeaderList::encode on three   *)
(* header lists in order; a decoder that started from the same table runs  *)
(* HeaderList::decode on the three blocks in an order of its own.          *)
(***************************************************************************)
\* The header lists sent: none or one of "a: b", ":method: b" and
\* ":method: GET".
OrderFields ==
    {HeaderField(<<97>>, <<98>>),
     HeaderField(STATIC_HEADER_FIELDS_TABLE_CONSTANTS[2].name, <<98>>),
     STATIC_HEADER_FIELDS_TABLE_CONSTANTS[2]}
OrderLists == {<<>>} \cup {<<f>> : f \in OrderFields}

\* The orders in which the three blocks reach the decoder.
Orders == {o \in [1..3 -> 1..3] : \A i, j \in 1..3 : o[i] = o[j] => i = j}

InitOrder ==
    /\ \E max_size \in BlockMaxSizes :
         /\ sender_table = HeaderTableNew(max_size)
         /\ header_table = HeaderTableNew(max_size)
    /\ bytes = <<>>
    /\ stream = <<>>
    /\ headers = <<>>
    /\ inserted = NoHistory
    /\ \E lists \in [1..3 -> OrderLists], order \in Orders :
         last = [op |-> "input", lists |-> lists, order |-> order,
                 blocks |-> <<>>, received |-> 0,
                 statuses |-> [i \in 1..3 |-> "none"],
                 outputs |-> [i \in 1..3 |-> <<>>]]

\* HeaderList::encode on the next list, against the encoder's table.
EncodeNext ==
    /\ last.op \in {"input", "HeaderList::encode"}
    /\ Len(last.blocks) < 3
    /\ \E out \in {HeaderListEncode(last.lists[Len(last.blocks) + 1], sender_table)} :
         /\ sender_table' = out.table
         /\ last' = [last EXCEPT !.op = "HeaderList::encode",
                                 !.blocks = Append(last.blocks, out.bytes)]
    /\ UNCHANGED <<header_table, bytes, stream, headers, inserted>>

\* HeaderList::decode on the block that arrives next, against the decoder's
\* table.
DecodeNext ==
    /\ last.op \in {"HeaderList::encode", "HeaderList::decode"}
    /\ Len(last.blocks) = 3
    /\ last.received < 3
    /\ \E overflow_checks \in BOOLEAN :
         LET i == last.order[last.received + 1] IN
         \E out \in {HeaderListDecode(last.blocks[i], header_table, overflow_checks)} :
           /\ header_table' = out.table
           /\ bytes' = out.bytes
           /\ headers' = out.headers
           /\ last' = [last EXCEPT !.op = "HeaderList::decode",
                                   !.received = last.received + 1,
                                   !.statuses[i] = out.status,
                                   !.outputs[i] = out.headers]
    /\ UNCHANGED <<sender_table, stream, inserted>>

NextOrder == EncodeNext \/ DecodeNext

SpecOrder == InitOrder /\ [][NextOrder]_vars

\* L1 = "a: b", L2 = ":method: b", L3 = "a: b": the encoder inserts the first
\* two and sends the third as a reference to the older entry.
MisorderedLists ==
    <<(<<HeaderField(<<97>>, <<98>>)>>),
      (<<HeaderField(STATIC_HEADER_FIELDS_TABLE_CONSTANTS[2].name, <<98>>)>>),
      (<<HeaderField(<<97>>, <<98>>)>>)>>

\* The decoder has decoded the three blocks.
AllReceived == last.op = "HeaderList::decode" /\ last.received = 3

\* The three blocks of MisorderedLists, decoded second, first, third by a
\* table that holds two entries.
Misordered ==
    /\ AllReceived
    /\ last.lists = MisorderedLists
    /\ last.order = <<2, 1, 3>>
    /\ header_table.dynamic_table.max_size = SizeStep + SizeStep

\* C26: the header lists L1, L2, L3 of MisorderedLists, encoded in that order
\* by one encoder and decoded in the order block 2, block 1, block 3 by a
\* decoder that started from the same table, give no error in any decode,
\* yet a header list returned differs from the one encoded or the decoder's
\* table differs from the encoder's; decoded in the order of encoding, the
\* lists come back as encoded and the tables are equal.
C26_OrderMatters ==
    /\ Misordered =>
         /\ \A i \in 1..3 : last.statuses[i] = "Ok"
         /\ \/ \E i \in 1..3 : last.outputs[i] # last.lists[i]
            \/ header_table # sender_table
    /\ (AllReceived /\ last.order = <<1, 2, 3>>) =>
         /\ \A i \in 1..3 : last.statuses[i] = "Ok"
         /\ \A i \in 1..3 : last.outputs[i] = last.lists[i]
         /\ header_table = sender_table

\* The misordered decoder returns ":method: b" for the third block, whose
\* list was "a: b", without an error.
C26_Witness ==
    /\ Misordered
    /\ last.statuses = [i \in 1..3 |-> "Ok"]
    /\ last.outputs[3] # last.lists[3]
    /\ last.outputs[3] = last.lists[2]
    /\ header_table # sender_table

\* The frame types whose payload carries a header block fragment: HEADERS,
\* PUSH_PROMISE and CONTINUATION.
HeaderBearingTypes == {1, 5, 9}

\* The buffer starts with the header of a frame that carries no header block.
NotHeaderBearing(s) == Len(s) >= 9 /\ TypeField(s) \notin HeaderBearingTypes

\* C29: Frame::deserialize on a frame that is not HEADERS, PUSH_PROMISE or
\* CONTINUATION (DATA, PRIORITY, RST_STREAM, SETTINGS even with a
\* HEADER_TABLE_SIZE parameter, PING, GOAWAY, WINDOW_UPDATE) leaves the header
\* table as it was, whether the call succeeds or fails.
C29_OnlyHeaderFramesTouchTable ==
    (last.op = "Frame::deserialize" /\ NotHeaderBearing(last.pre)) =>
        header_table = last.table

\* A SETTINGS frame with HEADER_TABLE_SIZE 4096 has been accepted, and the
\* table, whose maximum size is not 4096, is as it was before the call.
C29_Witness ==
    /\ last.op = "Frame::deserialize"
    /\ last.status = "Ok"
    /\ last.frame.type = "Settings"
    /\ \E i \in DOMAIN last.frame.settings_parameters :
         /\ last.frame.settings_parameters[i].name = "HeaderTableSize"
         /\ last.frame.settings_parameters[i].value = 4096
    /\ header_table.dynamic_table.max_size # 4096
    /\ header_table = last.table

(***************************************************************************)
(* Specification SpecLoop: HeaderList::decode called once on a byte vector *)
(* of arbitrary octets, each turn of its loop a step.  stream keeps the    *)
(* octets the call was given.                                              *)
(***************************************************************************)
\* Length of the byte vector.
MaxOctets == 4

\* First octets of every representation, with an all-ones prefix (255), a
\* zero index (128), string lengths (0, 1) and a character (97).
BlockAlphabet == {0, 1, 16, 32, 64, 97, 128, 130, 255}

InitLoop ==
    /\ header_table = HeaderTableNew(SizeStep + SizeStep)
    /\ sender_table = IdleTable
    /\ bytes = <<>>
    /\ stream = <<>>
    /\ headers = <<>>
    /\ last = NoCall
    /\ inserted = NoHistory

\* The caller pushes one more octet on the vector it is going to hand over.
PushOctet ==
    /\ last = NoCall
    /\ Len(stream) < MaxOctets
    /\ \E octet \in BlockAlphabet : stream' = Append(stream, octet)
    /\ UNCHANGED <<header_table, sender_table, bytes, headers, last, inserted>>

\* HeaderList::decode(bytes, header_table) is entered with a copy of the
\* vector; stream keeps the octets the call was given.
DecodeOctets ==
    /\ last = NoCall
    /\ bytes' = stream
    /\ headers' = <<>>
    /\ last' = [op |-> "HeaderList::decode", status |-> "Loop",
                reps |-> <<>>, tables |-> <<header_table>>,
                outputs |-> <<>>]
    /\ UNCHANGED <<header_table, sender_table, stream, inserted>>

NextLoop == PushOctet \/ DecodeOctets \/ DecodeTurn \/ DecodeReturn

\* The call is in its loop, or has ended.
InLoop == last.op = "HeaderList::decode" /\ last.status = "Loop"
Ended == last.op = "HeaderList::decode" /\ last.status # "Loop"

\* Once entered the call runs on, no turn of the loop waits for anything:
\* weak fairness of the return and of the turn.  The fairness of DecodeTurn
\* is written out with its guard in the place of ENABLED <<DecodeTurn>>_vars
\* (a turn always changes last).
LoopRunsOn ==
    /\ WF_vars(DecodeReturn)
    /\ \/ []<>(~(InLoop /\ bytes # <<>>))
       \/ []<><<DecodeTurn>>_vars

SpecLoop == InitLoop /\ [][NextLoop]_vars /\ LoopRunsOn

\* The masks and patterns HeaderRepresentation::decode tries on the first
\* octet, in its order, and the kinds each one leads to.
Discriminators ==
    <<[mask |-> 128, pattern |-> 128, kinds |-> {"Indexed"}],
      [mask |-> 192, pattern |-> 64,
       kinds |-> {"IncrementalIndexingIndexedName", "IncrementalIndexingNewName"}],
      [mask |-> 240, pattern |-> 0,
       kinds |-> {"WithoutIndexingIndexedName", "WithoutIndexingNewName"}],
      [mask |-> 240, pattern |-> 16,
       kinds |-> {"NeverIndexedIndexedName", "NeverIndexedNewName"}],
      [mask |-> 224, pattern |-> 32, kinds |-> {"SizeUpdate"}]>>

\* The discriminators the octet matches.
Matching(octet) ==
    {i \in DOMAIN Discriminators :
       BitAnd(octet, Discriminators[i].mask) = Discriminators[i].pattern}

\* The turns of the call that did not fail.
TurnsDone == IF InLoop THEN Len(last.reps) ELSE Len(last.reps) - 1

\* Every octet matches exactly one discriminator (all 256 are tried once,
\* in the initial state); every turn done has removed at least
\* one octet; the representation decoded from a first octet is of the kind
\* of its discriminator and shortens the byte vector.
LoopMeasure ==
    /\ last = NoCall /\ stream = <<>> =>
         \A octet \in 0..255 : Cardinality(Matching(octet)) = 1
    /\ InLoop =>
         /\ Len(bytes) + TurnsDone <= Len(stream)
         /\ bytes # <<>> =>
              /\ Cardinality(Matching(bytes[1])) = 1
              /\ \A overflow_checks \in BOOLEAN :
                   LET decoded == HeaderRepresentationDecode(bytes, overflow_checks)
                   IN decoded.status = "Ok" =>
                        /\ Len(decoded.bytes) < Len(bytes)
                        /\ \A i \in Matching(bytes[1]) :
                             decoded.rep.kind \in Discriminators[i].kinds
    /\ Ended =>
         /\ Len(last.reps) <= Len(stream)
         /\ last.status = "Ok" => bytes = <<>>

\* C30: on every finite input HeaderList::decode ends: a representation that
\* decodes removes at least one octet (the first octet matches exactly one of
\* the five discriminators), the loop stops on the empty byte vector, an
\* error ends the call at once, and the representations processed are at
\* most as many as the input octets.
C30_DecodeTerminates ==
    /\ []LoopMeasure
    /\ InLoop ~> Ended

\* A call that has ended after as many representations as it had octets.
C30_Witness ==
    /\ Ended
    /\ last.status = "Ok"
    /\ Len(stream) = MaxOctets
    /\ Len(last.reps) = Len(stream)
====
